---- MODULE Spec2Model ----
(***************************************************************************)
(* People search: the search route (three revisions of it), the export     *)
(* route, and the pure helpers they call.                                  *)
(*                                                                         *)
(* Strings are TLA+ strings (sequences of characters); JavaScript values   *)
(* whose type the code does not fix (a JSON-decoded LLM reply, a request   *)
(* body, an optional field) are tagged records [t |-> tag, v |-> payload]. *)
(***************************************************************************)
EXTENDS Integers, Sequences, FiniteSets, TLC

(***************************************************************************)
(* Strings                                                                 *)
(***************************************************************************)

\* The element of a singleton set. A value that is used more than once is bound
\* as x \in {value}, so that it is computed once.
Only(S) == CHOOSE x \in S : TRUE

Least(S) == CHOOSE i \in S : \A j \in S : i <= j

Greatest(S) == CHOOSE i \in S : \A j \in S : i >= j

\* The concatenation of a sequence of strings
RECURSIVE ConcatRange(_, _, _)
ConcatRange(pieces, a, b) ==
  IF a > b THEN ""
  ELSE IF a = b THEN pieces[a]
  ELSE ConcatRange(pieces, a, (a + b) \div 2) \o ConcatRange(pieces, (a + b) \div 2 + 1, b)

Concat(pieces) == ConcatRange(pieces, 1, Len(pieces))

\* s[i], 1-based; the empty string outside the string
Char(s, i) == IF i >= 1 /\ i <= Len(s) THEN SubSeq(s, i, i) ELSE ""

UpperChars == "ABCDEFGHIJKLMNOPQRSTUVWXYZ"
LowerChars == "abcdefghijklmnopqrstuvwxyz"
DigitChars == "0123456789"

CharIn(c, chars) == \E i \in 1..Len(chars) : Char(chars, i) = c

\* \s of a JavaScript regular expression, over the characters the model uses
IsWs(c) == c = " " \/ c = "\n" \/ c = "\t"
IsUpper(c) == CharIn(c, UpperChars)
IsLower(c) == CharIn(c, LowerChars)
IsLetter(c) == IsUpper(c) \/ IsLower(c)
IsDigit(c) == CharIn(c, DigitChars)

LowerOfChar(c) ==
  IF IsUpper(c)
    THEN Char(LowerChars, CHOOSE i \in 1..Len(UpperChars) : Char(UpperChars, i) = c)
    ELSE c

toLowerCase(s) == Concat([k \in 1..Len(s) |-> LowerOfChar(Char(s, k))])

\* String.prototype.startsWith at 1-based position i
StartsWithAt(s, t, i) ==
  /\ i >= 1
  /\ i + Len(t) - 1 <= Len(s)
  /\ SubSeq(s, i, i + Len(t) - 1) = t

startsWith(s, t) == StartsWithAt(s, t, 1)

\* The same under the i flag, for a pattern t given in lower case
StartsWithAtCI(s, t, i) ==
  /\ i >= 1
  /\ i + Len(t) - 1 <= Len(s)
  /\ toLowerCase(SubSeq(s, i, i + Len(t) - 1)) = t

\* String.prototype.includes
includes(s, t) == \E i \in 1..(Len(s) - Len(t) + 1) : StartsWithAt(s, t, i)

\* String.prototype.indexOf, 1-based; 0 when t does not occur
indexOf(s, t) ==
  IF includes(s, t)
    THEN CHOOSE i \in 1..(Len(s) - Len(t) + 1) :
           /\ StartsWithAt(s, t, i)
           /\ \A j \in 1..(i - 1) : ~StartsWithAt(s, t, j)
    ELSE 0

RECURSIVE trimStart(_)
trimStart(s) ==
  IF s # "" /\ IsWs(Head(s)) THEN trimStart(Tail(s)) ELSE s

RECURSIVE trimEnd(_)
trimEnd(s) ==
  IF s # "" /\ IsWs(Char(s, Len(s))) THEN trimEnd(SubSeq(s, 1, Len(s) - 1)) ELSE s

\* String.prototype.trim
trim(s) == trimEnd(trimStart(s))

\* s.replace(/\s+/g, ' ')
CollapseWs(s) ==
  Concat([k \in 1..Len(s) |->
            IF ~IsWs(Char(s, k)) THEN Char(s, k)
            ELSE IF IsWs(Char(s, k - 1)) THEN "" ELSE " "])

\* The first whitespace of s (0 when there is none)
FirstWs(s) ==
  Only({IF hits = {} THEN 0 ELSE Least(hits) : hits \in {{k \in 1..Len(s) : IsWs(Char(s, k))}}})

\* s.split(/\s+/): the pieces between the whitespace runs, empty pieces kept
RECURSIVE SplitWs(_)
SplitWs(s) ==
  IF FirstWs(s) = 0 THEN <<s>>
  ELSE <<SubSeq(s, 1, FirstWs(s) - 1)>>
         \o SplitWs(trimStart(SubSeq(s, FirstWs(s), Len(s))))

(***************************************************************************)
(* JavaScript values                                                       *)
(***************************************************************************)

JUndef == [t |-> "undefined", v |-> 0]
JNull == [t |-> "null", v |-> 0]
JStr(s) == [t |-> "string", v |-> s]
JNum(n) == [t |-> "number", v |-> n]
JArr(a) == [t |-> "array", v |-> a]
JObj(o) == [t |-> "object", v |-> o]

\* ToBoolean
Truthy(x) ==
  CASE x.t = "undefined" -> FALSE
    [] x.t = "null" -> FALSE
    [] x.t = "string" -> x.v # ""
    [] x.t = "number" -> x.v # 0
    [] OTHER -> TRUE

\* a || b
JsOr(a, b) == IF Truthy(a) THEN a ELSE b

\* obj.key of a decoded JSON object: undefined when the key is absent
Prop(obj, key) == IF key \in DOMAIN obj.v THEN obj.v[key] ELSE JUndef

(***************************************************************************)
(* Query interpretation                                                    *)
(***************************************************************************)

\* (?:at|@) of the query patterns, case-insensitive: the keyword's length when it
\* stands at position i, 0 when it does not
KeywordAt(s, i) ==
  IF StartsWithAtCI(s, "at", i) THEN 2
  ELSE IF StartsWithAt(s, "@", i) THEN 1
  ELSE 0

\* The first position >= i that holds no whitespace (Len(s) + 1 when there is none)
SkipWs(s, i) ==
  CHOOSE p \in i..(Len(s) + 1) :
    /\ \A k \in i..(p - 1) : IsWs(Char(s, k))
    /\ (p = Len(s) + 1 \/ ~IsWs(Char(s, p)))

\* [a-zA-Z0-9\s&.]
IsCompanyChar(c) == IsLetter(c) \/ IsDigit(c) \/ IsWs(c) \/ c = "&" \/ c = "."

\* ([A-Z][a-zA-Z0-9\s&.]+?)(?:\s|$) with the i flag, the group starting at p: the
\* lengths the lazy group may take
CompanyGroupLens(s, p) ==
  { n \in 2..(Len(s) - p + 1) :
      /\ IsLetter(Char(s, p))
      /\ \A k \in (p + 1)..(p + n - 1) : IsCompanyChar(Char(s, k))
      /\ (p + n = Len(s) + 1 \/ IsWs(Char(s, p + n))) }

\* /(?:at|@)\s+([A-Z][a-zA-Z0-9\s&.]+?)(?:\s|$)/i matches with the keyword at i
CompanyMatchAt(s, i) ==
  /\ KeywordAt(s, i) > 0
  /\ i + KeywordAt(s, i) <= Len(s)
  /\ IsWs(Char(s, i + KeywordAt(s, i)))
  /\ CompanyGroupLens(s, SkipWs(s, i + KeywordAt(s, i))) # {}

extractCompanyFromQuery(query) ==
  IF \E i \in 1..Len(query) : CompanyMatchAt(query, i)
    THEN LET i == CHOOSE i \in 1..Len(query) :
                    /\ CompanyMatchAt(query, i)
                    /\ \A j \in 1..(i - 1) : ~CompanyMatchAt(query, j)
             p == SkipWs(query, i + KeywordAt(query, i))
             lens == CompanyGroupLens(query, p)
             n == CHOOSE n \in lens : \A m \in lens : n <= m
         IN  trim(SubSeq(query, p, p + n - 1))
    ELSE ""

\* /\s+(?:at|@)\s+/i matches starting at i
TitleSplitAt(s, i) ==
  /\ IsWs(Char(s, i))
  /\ LET q == SkipWs(s, i)
     IN  /\ KeywordAt(s, q) > 0
         /\ q + KeywordAt(s, q) <= Len(s)
         /\ IsWs(Char(s, q + KeywordAt(s, q)))

extractJobTitleFromQuery(query) ==
  LET beforeAt ==
        IF \E i \in 1..Len(query) : TitleSplitAt(query, i)
          THEN LET i == CHOOSE i \in 1..Len(query) :
                          /\ TitleSplitAt(query, i)
                          /\ \A j \in 1..(i - 1) : ~TitleSplitAt(query, j)
               IN  trim(SubSeq(query, 1, i - 1))
          ELSE trim(query)
  IN  IF beforeAt = "" THEN "" ELSE toLowerCase(beforeAt)

\* The ParsedQuery of the no-credential and the error paths
EmptyParsedQuery ==
  [company |-> JStr(""), jobTitle |-> JStr(""), titleVariations |-> JArr(<<>>)]

(* What the chat completion can do, as parseQueryWithGPT sees it:           *)
(*   [kind |-> "error"]        the call rejects (network, credential, ...)  *)
(*   [kind |-> "nochoice"]     completion.choices is empty                  *)
(*   [kind |-> "empty"]        message.content is null or ''                *)
(*   [kind |-> "badjson"]      JSON.parse throws on the content             *)
(*   [kind |-> "json", value |-> x]   the content decodes to x              *)
LlmReplyThrows(reply) ==
  \/ reply.kind \in {"error", "nochoice", "badjson"}
  \/ reply.kind = "json" /\ reply.value.t \in {"null", "undefined"}

\* parsed.key of the decoded reply (no throw: LlmReplyThrows is excluded first)
ParsedProp(reply, key) ==
  IF reply.kind = "json" /\ reply.value.t = "object"
    THEN Prop(reply.value, key)
    ELSE JUndef

\* parseQueryWithGPT once the completion has settled with reply
parseQueryWithGPTReturn(reply) ==
  IF LlmReplyThrows(reply)
    THEN EmptyParsedQuery
    ELSE [company |-> JsOr(ParsedProp(reply, "company"), JStr("")),
          jobTitle |-> JsOr(ParsedProp(reply, "jobTitle"), JStr("")),
          titleVariations |-> JsOr(ParsedProp(reply, "titleVariations"), JArr(<<>>))]

(***************************************************************************)
(* Match filter                                                            *)
(***************************************************************************)

\* title.replace(/[-_]/g, ' ')
HyphensToSpaces(s) ==
  Concat([k \in 1..Len(s) |->
            IF Char(s, k) = "-" \/ Char(s, k) = "_" THEN " " ELSE Char(s, k)])

normalizeTitle(title) == trim(CollapseWs(HyphensToSpaces(title)))

\* The entries of titleSynonyms, in the order Object.entries gives them
titleSynonyms ==
  << <<"director", <<"director", "head", "vp", "vice president", "lead", "principal">> >>,
     <<"engineer", <<"engineer", "developer", "programmer", "technologist", "swe", "mts",
                     "member of technical staff", "ic", "individual contributor",
                     "staff engineer", "senior engineer">> >>,
     <<"scientist", <<"scientist", "researcher", "research engineer", "research scientist",
                      "applied scientist">> >>,
     <<"manager", <<"manager", "lead", "supervisor", "head", "em", "engineering manager",
                    "technical lead", "tech lead", "tl">> >>,
     <<"founder", <<"founder", "co-founder", "cofounder", "ceo", "chief executive">> >>,
     <<"designer", <<"designer", "ux", "ui", "product designer", "design lead",
                     "creative director">> >>,
     <<"analyst", <<"analyst", "associate", "specialist", "consultant">> >>,
     <<"product", <<"product manager", "pm", "product lead", "product owner", "tpm",
                    "technical product manager">> >>,
     <<"data", <<"data scientist", "data engineer", "data analyst", "ml engineer",
                 "machine learning engineer">> >> >>

\* The words the keyword fallback skips
CommonWords == {"a", "the", "and", "or", "at", "in", "of", "senior", "junior", "staff"}

\* Direct substring match (normalized)
DirectMatch(normalizedProfile, normalizedSearch) ==
  \/ includes(normalizedProfile, normalizedSearch)
  \/ includes(normalizedSearch, normalizedProfile)

\* The founder special case returns (its two inner branches)
FounderSearchIsCo(normalizedSearch) ==
  includes(normalizedSearch, "co founder") \/ includes(normalizedSearch, "cofounder")

FounderProfileIsCo(normalizedProfile) ==
  includes(normalizedProfile, "co founder") \/ includes(normalizedProfile, "cofounder")

FounderRuleDecides(normalizedProfile, normalizedSearch) ==
  /\ includes(normalizedSearch, "founder") \/ includes(normalizedProfile, "founder")
  /\ FounderSearchIsCo(normalizedSearch) \/ FounderProfileIsCo(normalizedProfile)

\* Seeded fault for C13: a search with the co- form asks for the co- form in
\* the profile
FounderRuleSameForm(normalizedProfile, normalizedSearch) ==
  IF FounderSearchIsCo(normalizedSearch)
    THEN FounderProfileIsCo(normalizedProfile)
    ELSE includes(normalizedSearch, "founder")

FounderRuleResult(normalizedProfile, normalizedSearch) ==
  IF FounderSearchIsCo(normalizedSearch)
    THEN includes(normalizedProfile, "founder")
    ELSE includes(normalizedSearch, "founder")

\* The loop over the GPT-generated variations returns true
VariationMatch(normalizedProfile, titleVariations) ==
  /\ Len(titleVariations) > 0
  /\ \E k \in 1..Len(titleVariations) :
       LET normalizedVariation == normalizeTitle(toLowerCase(titleVariations[k]))
       IN  \/ includes(normalizedProfile, normalizedVariation)
           \/ includes(normalizedVariation, normalizedProfile)

\* The loop over titleSynonyms returns true
SynonymMatch(normalizedProfile, normalizedSearch) ==
  LET searchTerms == SplitWs(normalizedSearch)
  IN  \E e \in 1..Len(titleSynonyms) :
        LET baseTitle == titleSynonyms[e][1]
            synonyms == titleSynonyms[e][2]
            baseTitleWords == SplitWs(baseTitle)
            hasBaseTitleMatch ==
              \E w \in 1..Len(baseTitleWords) : \E t \in 1..Len(searchTerms) :
                \/ includes(searchTerms[t], baseTitleWords[w])
                \/ includes(baseTitleWords[w], searchTerms[t])
        IN  /\ hasBaseTitleMatch \/ includes(normalizedSearch, baseTitle)
            /\ \E y \in 1..Len(synonyms) : includes(normalizedProfile, synonyms[y])

\* keyMatches.length > 0
KeywordMatch(normalizedProfile, normalizedSearch) ==
  LET searchWords == SplitWs(normalizedSearch)
      profileWords == SplitWs(normalizedProfile)
  IN  \E t \in 1..Len(searchWords) :
        /\ searchWords[t] \notin CommonWords
        /\ \E w \in 1..Len(profileWords) :
             \/ includes(profileWords[w], searchWords[t])
             \/ includes(searchWords[t], profileWords[w])

\* Seeded fault for C10: a non-empty variation list replaces the synonym and
\* keyword matching instead of preceding it
VariationsReplace(normalizedProfile, normalizedSearch, titleVariations) ==
  IF Len(titleVariations) > 0
    THEN VariationMatch(normalizedProfile, titleVariations)
    ELSE \/ SynonymMatch(normalizedProfile, normalizedSearch)
         \/ KeywordMatch(normalizedProfile, normalizedSearch)

\* What hasMatchingJobTitle returns once the direct match and the founder rule
\* have not decided (route.ts 251-293)
VariationStep(normalizedProfile, normalizedSearch, titleVariations) ==
  \/ VariationMatch(normalizedProfile, titleVariations)
  \/ SynonymMatch(normalizedProfile, normalizedSearch)
  \/ KeywordMatch(normalizedProfile, normalizedSearch)

\* Seeded fault for C12: the sentinel is not taken for a missing title
TitleEmpty(profileTitle) == profileTitle = ""

\* if (!profileTitle || profileTitle === 'not specified'), on the lower-cased title
TitleMissing(profileTitle) == profileTitle = "" \/ profileTitle = "not specified"

hasMatchingJobTitle(profile, searchedTitle, titleVariations) ==
  LET profileTitle == toLowerCase(profile.title)
      normalizedProfile == normalizeTitle(profileTitle)
      normalizedSearch == normalizeTitle(toLowerCase(searchedTitle))
  IN  IF TitleMissing(profileTitle) THEN FALSE
      ELSE IF DirectMatch(normalizedProfile, normalizedSearch) THEN TRUE
      ELSE IF FounderRuleDecides(normalizedProfile, normalizedSearch)
        THEN FounderRuleResult(normalizedProfile, normalizedSearch)
      ELSE VariationStep(normalizedProfile, normalizedSearch, titleVariations)

\* Seeded fault for C11: only the profile's company is searched for the other
isCurrentEmployeeOneWay(profile, searchCompany) ==
  LET companyLower == toLowerCase(searchCompany)
      profileCompany == toLowerCase(profile.company)
  IN  IF profileCompany = "" \/ profileCompany = "not specified" THEN FALSE
      ELSE includes(profileCompany, companyLower)

isCurrentEmployee(profile, searchCompany) ==
  LET companyLower == toLowerCase(searchCompany)
      profileCompany == toLowerCase(profile.company)
  IN  IF profileCompany = "" \/ profileCompany = "not specified" THEN FALSE
      ELSE IF includes(profileCompany, companyLower) \/ includes(companyLower, profileCompany)
        THEN TRUE
      ELSE profileCompany = companyLower

(***************************************************************************)
(* Profile extraction: text cleaning                                       *)
(***************************************************************************)

\* TLA+ strings are ASCII. The two non-ASCII characters the patterns name, the
\* bullet U+2022 and the middle dot U+00B7, are written ~ and ^ here; the inputs
\* of the model use these two characters for nothing else.
Bullet == "~"
MidDot == "^"

\* s.replace(/^[set]+/, '')
RECURSIVE StripLeading(_, _)
StripLeading(s, chars) ==
  IF s # "" /\ (CharIn(Head(s), chars) \/ IsWs(Head(s)))
    THEN StripLeading(Tail(s), chars) ELSE s

\* s.replace(/[set]+$/, '')
RECURSIVE StripTrailing(_, _)
StripTrailing(s, chars) ==
  IF s # "" /\ (CharIn(Char(s, Len(s)), chars) \/ IsWs(Char(s, Len(s))))
    THEN StripTrailing(SubSeq(s, 1, Len(s) - 1), chars) ELSE s

\* s.replace(/^[set\s]+|[set\s]+$/g, ''): whitespace is in every such set of the code
StripBoth(s, chars) == StripTrailing(StripLeading(s, chars), chars)

\* The first position >= i holding c (0 when there is none)
NextChar(s, c, i) ==
  IF \E k \in i..Len(s) : Char(s, k) = c
    THEN CHOOSE k \in i..Len(s) :
           Char(s, k) = c /\ \A j \in i..(k - 1) : Char(s, j) # c
    ELSE 0

\* s.replace(/\[([^\]]+)\]/g, '$1') with open = "[", close = "]", keep = TRUE;
\* s.replace(/<[^>]+>/g, '') with open = "<", close = ">", keep = FALSE
RECURSIVE ReplaceBracketed(_, _, _, _)
ReplaceBracketed(s, open, close, keep) ==
  Only({IF opens = {} THEN s
        ELSE Only({SubSeq(s, 1, k - 1)
                     \o (IF keep THEN SubSeq(s, k + 1, NextChar(s, close, k + 1) - 1) ELSE "")
                     \o ReplaceBracketed(SubSeq(s, NextChar(s, close, k + 1) + 1, Len(s)),
                                         open, close, keep) :
                     k \in {Least(opens)}}) :
          opens \in {{k \in 1..Len(s) :
                        Char(s, k) = open /\ NextChar(s, close, k + 1) > k + 1}}})

\* s.replace(/lit/gi, '') for a literal lit
RECURSIVE RemoveAllCI(_, _)
RemoveAllCI(s, lit) ==
  Only({IF hits = {} THEN s
        ELSE SubSeq(s, 1, Least(hits) - 1)
               \o RemoveAllCI(SubSeq(s, Least(hits) + Len(lit), Len(s)), lit) :
          hits \in {{k \in 1..Len(s) : StartsWithAtCI(s, lit, k)}}})

\* s.replace(/^(?:at|@)\s+/i, '')
RemoveLeadingAt(s) ==
  LET k == KeywordAt(s, 1)
  IN  IF k > 0 /\ k < Len(s) /\ IsWs(Char(s, k + 1))
        THEN SubSeq(s, SkipWs(s, k + 1), Len(s))
        ELSE s

\* s.replace(/\s+(?:at|@)\s*$/i, '')
RemoveTrailingAt(s) ==
  LET t == trimEnd(s)
      k == IF Len(t) >= 2 /\ KeywordAt(t, Len(t) - 1) = 2 THEN 2
           ELSE IF Len(t) >= 1 /\ KeywordAt(t, Len(t)) = 1 THEN 1
           ELSE 0
      before == SubSeq(t, 1, Len(t) - k)
  IN  IF k > 0 /\ before # "" /\ IsWs(Char(before, Len(before)))
        THEN trimEnd(before)
        ELSE s

cleanExtractedText(text) ==
  LET s1 == StripLeading(text, "#" \o Bullet \o MidDot \o "-")
      s2 == ReplaceBracketed(s1, "[", "]", TRUE)
      s3 == ReplaceBracketed(s2, "<", ">", FALSE)
      s4 == RemoveAllCI(s3, "(current)")
      s5 == RemoveAllCI(RemoveAllCI(s4, "(full-time)"), "(full time)")
      s6 == RemoveLeadingAt(s5)
      s7 == RemoveTrailingAt(s6)
  IN  trim(CollapseWs(s7))

\* title.split(' - ').pop()
RECURSIVE LastDashPiece(_)
LastDashPiece(s) ==
  LET i == indexOf(s, " - ")
  IN  IF i = 0 THEN s ELSE LastDashPiece(SubSeq(s, i + 3, Len(s)))

\* [a-zA-Z\s\.]
IsNameChar(c) == IsLetter(c) \/ IsWs(c) \/ c = "."

\* /^[a-zA-Z\s\.]+\s+is\s+/i can end its "is" at positions k, k + 1
NameIsAt(s, k) ==
  /\ k >= 3
  /\ StartsWithAtCI(s, "is", k)
  /\ k + 2 <= Len(s)
  /\ IsWs(Char(s, k + 2))
  /\ IsWs(Char(s, k - 1))
  /\ \A j \in 1..(k - 1) : IsNameChar(Char(s, j))

\* s.replace(/^[a-zA-Z\s\.]+\s+is\s+/i, ''): the greedy class takes the last such "is"
RemoveNameIs(s) ==
  IF \E k \in 1..Len(s) : NameIsAt(s, k)
    THEN LET k == CHOOSE k \in 1..Len(s) :
                    NameIsAt(s, k) /\ \A j \in (k + 1)..Len(s) : ~NameIsAt(s, j)
         IN  SubSeq(s, SkipWs(s, k + 2), Len(s))
    ELSE s

\* s.replace(/^is\s+/i, '')
RemoveLeadingIs(s) ==
  IF StartsWithAtCI(s, "is", 1) /\ Len(s) >= 3 /\ IsWs(Char(s, 3))
    THEN SubSeq(s, SkipWs(s, 3), Len(s))
    ELSE s

cleanJobTitle(title, name) ==
  LET c1 == IF includes(title, " - ")
              THEN (IF LastDashPiece(title) # "" THEN LastDashPiece(title) ELSE title)
              ELSE title
      c2 == RemoveNameIs(c1)
      nameLower == toLowerCase(name)
      once == trim(SubSeq(c2, Len(name) + 1, Len(c2)))
      twice == IF startsWith(toLowerCase(once), nameLower)
                 THEN trim(SubSeq(once, Len(name) + 1, Len(once)))
                 ELSE once
      c3 == IF name # "" /\ name # "Unknown" /\ startsWith(toLowerCase(c2), nameLower)
              THEN RemoveLeadingIs(twice)
              ELSE c2
      c4 == RemoveLeadingIs(c3)
      c5 == trim(StripBoth(c4, "-" \o Bullet \o MidDot \o ":"))
  IN  IF c5 # "" THEN c5 ELSE title

(***************************************************************************)
(* Profile extraction: the page title                                      *)
(***************************************************************************)

Sentinel == "Not specified"
UnknownName == "Unknown"

\* The last position e >= g - 1 such that every character of s[g..e] satisfies P
RunEnd(s, g, P(_)) ==
  CHOOSE e \in (g - 1)..Len(s) :
    /\ \A k \in g..e : P(Char(s, k))
    /\ (e = Len(s) \/ ~P(Char(s, e + 1)))

NotNewline(c) == c # "\n"

\* /\s*[\|•]\s*(LinkedIn|Professional Profile).*$/i matches with its separator at k
SuffixAt(s, k) ==
  /\ Char(s, k) = "|" \/ Char(s, k) = Bullet
  /\ LET q == SkipWs(s, k + 1)
     IN  /\ \/ StartsWithAtCI(s, "linkedin", q)
            \/ StartsWithAtCI(s, "professional profile", q)
         /\ RunEnd(s, q, NotNewline) = Len(s)

\* title.replace(/\s*[\|•]\s*(LinkedIn|Professional Profile).*$/i, '').trim()
StripLinkedInSuffix(title) ==
  IF \E k \in 1..Len(title) : SuffixAt(title, k)
    THEN LET k == CHOOSE k \in 1..Len(title) :
                    SuffixAt(title, k) /\ \A j \in 1..(k - 1) : ~SuffixAt(title, j)
         IN  trim(SubSeq(title, 1, k - 1))
    ELSE trim(title)

\* The separators between job title and company, in the order they are tried
separators == <<" @ ", " at ", " | ">>

jobWords ==
  <<"engineer", "manager", "director", "developer", "designer", "scientist", "analyst",
    "lead", "specialist", "consultant", "architect", "researcher", "coordinator",
    "associate", "intern">>

\* Seeded fault for C18: a phrase of three words is no longer short
LooksLikeCompanyUnderThree(afterDash) ==
  /\ Len(SplitWs(afterDash)) < 3
  /\ ~\E w \in 1..Len(jobWords) : includes(toLowerCase(afterDash), jobWords[w])

\* The heuristic for an afterDash without separator: it is a company name
LooksLikeCompany(afterDash) ==
  /\ Len(SplitWs(afterDash)) <= 3
  /\ ~\E w \in 1..Len(jobWords) : includes(toLowerCase(afterDash), jobWords[w])

\* name, jobTitle and company as the page title alone gives them, before the
\* whitespace and special-character clean-up
SplitPageTitle(cleanTitle) ==
  LET dashIndex == indexOf(cleanTitle, " - ")
      afterDash == trim(SubSeq(cleanTitle, dashIndex + 3, Len(cleanTitle)))
      lowerAfter == toLowerCase(afterDash)
      found == {k \in 1..Len(separators) : includes(lowerAfter, separators[k])}
      sep == separators[CHOOSE k \in found : \A m \in found : k <= m]
      sepIndex == indexOf(lowerAfter, sep)
  IN  IF dashIndex = 0
        THEN [name |-> IF cleanTitle # "" THEN cleanTitle ELSE UnknownName,
              jobTitle |-> Sentinel, company |-> Sentinel]
      ELSE IF found # {}
        THEN [name |-> trim(SubSeq(cleanTitle, 1, dashIndex - 1)),
              jobTitle |-> trim(SubSeq(afterDash, 1, sepIndex - 1)),
              company |-> trim(SubSeq(afterDash, sepIndex + Len(sep), Len(afterDash)))]
      ELSE IF LooksLikeCompany(afterDash)
        THEN [name |-> trim(SubSeq(cleanTitle, 1, dashIndex - 1)),
              jobTitle |-> Sentinel, company |-> afterDash]
      ELSE [name |-> trim(SubSeq(cleanTitle, 1, dashIndex - 1)),
            jobTitle |-> afterDash, company |-> Sentinel]

\* x.replace(/\s+/g, ' ').trim(), then for jobTitle and company
\* x.replace(/^[@|•\-\s]+|[@|•\-\s]+$/g, '').trim()
TidyField(x) == trim(StripBoth(trim(CollapseWs(x)), "@|" \o Bullet \o "-"))

FromPageTitle(title) ==
  LET parts == SplitPageTitle(StripLinkedInSuffix(title))
  IN  [name |-> trim(CollapseWs(parts.name)),
       jobTitle |-> TidyField(parts.jobTitle),
       company |-> TidyField(parts.company)]

(***************************************************************************)
(* Profile extraction: body text and highlights                            *)
(***************************************************************************)

\* [\n•·]
IsTerminator(c) == c = "\n" \/ c = Bullet \/ c = MidDot
\* [^\n•·]
IsLineChar(c) == ~IsTerminator(c)
\* [^\n•·\d]
IsSectionChar(c) == ~IsTerminator(c) /\ ~IsDigit(c)
\* [:\s\n]
IsSectionSep(c) == c = ":" \/ IsWs(c)
\* \w
IsWordChar(c) == IsLetter(c) \/ IsDigit(c) \/ c = "_"
\* [a-zA-Z0-9\s&]
IsAbbrevCompanyChar(c) == IsLetter(c) \/ IsDigit(c) \/ IsWs(c) \/ c = "&"

\* The text a body pattern needs before a candidate may overwrite the title
MinBodyLength == 50
\* {5,80} of the patterns, and isValidLength
MinTitleLength == 5
MaxTitleLength == 80

\* /kw[:\s\n]+([^\n•·\d]{5,80})[\n•·]/i with the keyword at i and the group at g
SectionGroupAt(s, kw, i, g) ==
  /\ StartsWithAtCI(s, kw, i)
  /\ g > i + Len(kw)
  /\ \A k \in (i + Len(kw))..(g - 1) : IsSectionSep(Char(s, k))
  /\ LET e == RunEnd(s, g, IsSectionChar)
     IN  /\ e - g + 1 >= MinTitleLength
         /\ e - g + 1 <= MaxTitleLength
         /\ e < Len(s)
         /\ IsTerminator(Char(s, e + 1))

\* match[1] of the pattern for keyword kw ("" when it does not match): the leftmost
\* keyword, the longest separator run
SectionStarts(s, kw) ==
  {i \in 1..Len(s) : \E g \in 1..Len(s) : SectionGroupAt(s, kw, i, g)}

SectionGroupFrom(s, kw, i) ==
  Only({SubSeq(s, g, RunEnd(s, g, IsSectionChar)) :
          g \in {Greatest({h \in 1..Len(s) : SectionGroupAt(s, kw, i, h)})}})

SectionGroup(s, kw) ==
  Only({IF starts = {} THEN "" ELSE SectionGroupFrom(s, kw, Least(starts)) :
          starts \in {SectionStarts(s, kw)}})

DurationWords == <<"year", "yr", "month", "mo", "week", "day">>
MonthPrefixes ==
  <<"jan", "feb", "mar", "apr", "may", "jun", "jul", "aug", "sep", "oct", "nov", "dec">>

\* /\d+\s*(year|yr|month|mo|week|day)s?/i.test(t)
isDuration(t) ==
  \E p \in 1..Len(t) :
    /\ IsDigit(Char(t, p))
    /\ \E q \in (p + 1)..Len(t) :
         /\ \A k \in (p + 1)..(q - 1) : IsWs(Char(t, k))
         /\ \E w \in 1..Len(DurationWords) : StartsWithAtCI(t, DurationWords[w], q)

\* /^\d{4}/.test(t) || /^(Jan|...|Dec)/i.test(t)
isDate(t) ==
  \/ Len(t) >= 4 /\ \A k \in 1..4 : IsDigit(Char(t, k))
  \/ \E m \in 1..Len(MonthPrefixes) : startsWith(toLowerCase(t), MonthPrefixes[m])

\* /^[A-Z][a-z]+\s+[A-Z][a-z]+$/.test(t)
hasOnlyName(t) ==
  \E a \in 2..Len(t) : \E b \in (a + 1)..Len(t) :
    /\ IsUpper(Char(t, 1))
    /\ a >= 3
    /\ \A k \in 2..(a - 1) : IsLower(Char(t, k))
    /\ \A k \in a..(b - 1) : IsWs(Char(t, k))
    /\ IsUpper(Char(t, b))
    /\ b < Len(t)
    /\ \A k \in (b + 1)..Len(t) : IsLower(Char(t, k))

\* isValidLength && !isDuration && !isDate && !hasOnlyName
IsValidTitle(t) ==
  /\ Len(t) >= MinTitleLength
  /\ Len(t) <= MaxTitleLength
  /\ ~isDuration(t)
  /\ ~isDate(t)
  /\ ~hasOnlyName(t)

\* The loop over experiencePatterns: the job title after it
\* A captured group as a candidate title: whether the pattern matched, and the
\* group trimmed and cleaned
Candidate(group) ==
  Only({[matched |-> m # "", title |-> cleanExtractedText(trim(m))] : m \in {group}})

ExperiencePass(fullText, jobTitle) ==
  Only({IF m1.matched /\ IsValidTitle(m1.title) THEN m1.title
        ELSE IF m2.matched /\ IsValidTitle(m2.title) THEN m2.title
        ELSE jobTitle :
          m1 \in {Candidate(SectionGroup(fullText, "experience"))},
          m2 \in {Candidate(SectionGroup(fullText, "current"))}})

\* /\b([A-Z]{2,5})\b\s*(?:@|at)\s+([A-Z][a-zA-Z0-9\s&]+)/ matches at i (route.ts);
\* /\b([A-Z]{2,})\b\s*[@|at]\s*([A-Z][a-zA-Z0-9\s&]+)/i (the sequential revision)
AbbrevEnd(s, i, old) ==
  IF old THEN RunEnd(s, i, IsLetter) ELSE RunEnd(s, i, IsUpper)

AbbrevCompanyStart(s, i, old) ==
  LET e == AbbrevEnd(s, i, old)
      q == SkipWs(s, e + 1)
  IN  IF old
        THEN IF q <= Len(s) /\ CharIn(Char(s, q), "@|atAT") THEN SkipWs(s, q + 1) ELSE 0
        ELSE IF StartsWithAt(s, "@", q) /\ q < Len(s) /\ IsWs(Char(s, q + 1))
               THEN SkipWs(s, q + 2)
             ELSE IF StartsWithAt(s, "at", q) /\ q + 1 < Len(s) /\ IsWs(Char(s, q + 2))
               THEN SkipWs(s, q + 3)
             ELSE 0

AbbrevAt(s, i, old) ==
  LET e == AbbrevEnd(s, i, old)
      r == AbbrevCompanyStart(s, i, old)
  IN  /\ i = 1 \/ ~IsWordChar(Char(s, i - 1))
      /\ e - i + 1 >= 2
      /\ old \/ e - i + 1 <= 5
      /\ e = Len(s) \/ ~IsWordChar(Char(s, e + 1))
      /\ r > 0
      /\ r < Len(s)
      /\ IF old THEN IsLetter(Char(s, r)) ELSE IsUpper(Char(s, r))
      /\ IsAbbrevCompanyChar(Char(s, r + 1))

\* s.split(/[\n•·]/)[0]
FirstLine(s) == SubSeq(s, 1, RunEnd(s, 1, IsLineChar))

\* Pattern 2, run when the job title is still the sentinel
AbbrevStarts(fullText, old) == {i \in 1..Len(fullText) : AbbrevAt(fullText, i, old)}

\* match[2] of the match that starts at i
AbbrevGroup2(fullText, i, old) ==
  Only({SubSeq(fullText, r, RunEnd(fullText, r + 1, IsAbbrevCompanyChar)) :
          r \in {AbbrevCompanyStart(fullText, i, old)}})

AbbrevPass(fullText, fields, old) ==
  Only({IF f.jobTitle # Sentinel \/ starts = {} THEN f
        ELSE [f EXCEPT
                !.jobTitle = SubSeq(fullText, Least(starts), AbbrevEnd(fullText, Least(starts), old)),
                !.company = IF f.company = Sentinel
                              THEN trim(FirstLine(trim(AbbrevGroup2(fullText, Least(starts), old))))
                              ELSE f.company] :
          f \in {fields}, starts \in {AbbrevStarts(fullText, old)}})

\* [\s\n]+(?:at\s+)?company matches at p, case-insensitive
CompanyTailAt(s, company, p) ==
  \E w \in (p + 1)..(Len(s) + 1) :
    /\ \A k \in p..(w - 1) : IsWs(Char(s, k))
    /\ \/ StartsWithAtCI(s, toLowerCase(company), w)
       \/ /\ StartsWithAtCI(s, "at", w)
          /\ \E v \in (w + 3)..(Len(s) + 1) :
               /\ \A k \in (w + 2)..(v - 1) : IsWs(Char(s, k))
               /\ StartsWithAtCI(s, toLowerCase(company), v)

\* ([^\n•·]{5,80}) of companyPattern can run from i up to a tail that starts at p
CompanyGroupAt(s, i, p) ==
  /\ p - i >= MinTitleLength
  /\ p - i <= MaxTitleLength
  /\ RunEnd(s, i, IsLineChar) >= p - 1

\* companyMatch[1] ("" when the pattern does not match): the leftmost start, the
\* longest group
CompanyTails(s, company) == {p \in 1..Len(s) : CompanyTailAt(s, company, p)}

CompanyStarts(s, tails) == {i \in 1..Len(s) : \E p \in tails : CompanyGroupAt(s, i, p)}

CompanyGroupFrom(s, tails, starts) ==
  IF starts = {} THEN ""
  ELSE Only({SubSeq(s, i, Greatest({p \in tails : CompanyGroupAt(s, i, p)}) - 1) :
               i \in {Least(starts)}})

CompanyGroup(s, company) ==
  Only({Only({CompanyGroupFrom(s, tails, starts) : starts \in {CompanyStarts(s, tails)}}) :
          tails \in {CompanyTails(s, company)}})

\* The role at the searched company: the match of companyPattern
CompanyMatched(fullText, searchCompany, fields) ==
  Only({IF m.matched /\ IsValidTitle(m.title)
          THEN [f EXCEPT !.jobTitle = m.title, !.company = searchCompany]
          ELSE f :
          f \in {fields}, m \in {Candidate(CompanyGroup(fullText, searchCompany))}})

\* The role at the searched company (the fallback is in route.ts only)
CompanyPass(fullText, searchCompany, fields, old) ==
  Only({IF /\ ~old
           /\ matched.company = Sentinel
           /\ includes(toLowerCase(fullText), toLowerCase(searchCompany))
          THEN [matched EXCEPT !.company = searchCompany]
          ELSE matched :
          matched \in {CompanyMatched(fullText, searchCompany, fields)}})

(***************************************************************************)
(* Profile extraction: the bio (the sequential revision) and the profile   *)
(***************************************************************************)

IsSentenceEnd(c) == c = "." \/ c = "!" \/ c = "?"

RECURSIVE SkipSentenceEnds(_)
SkipSentenceEnds(s) ==
  IF s # "" /\ IsSentenceEnd(Head(s)) THEN SkipSentenceEnds(Tail(s)) ELSE s

\* The first sentence end of s (0 when there is none)
FirstSentenceEnd(s) ==
  Only({IF hits = {} THEN 0 ELSE Least(hits) :
          hits \in {{k \in 1..Len(s) : IsSentenceEnd(Char(s, k))}}})

\* s.split(/[.!?]+/)
RECURSIVE SplitSentences(_)
SplitSentences(s) ==
  Only({IF k = 0 THEN <<s>>
        ELSE <<SubSeq(s, 1, k - 1)>> \o SplitSentences(SkipSentenceEnds(SubSeq(s, k, Len(s)))) :
          k \in {FirstSentenceEnd(s)}})

\* The literal junkPatterns; /view.*profile/i is ViewProfile
JunkPhrases ==
  <<"sign in to view", "join now", "email or phone", "forgot password", "user agreement",
    "privacy policy", "cookie policy", "new to linkedin", "by clicking continue",
    "connect with">>

ViewProfile(t) ==
  \E i \in 1..Len(t) : \E j \in (i + 4)..Len(t) :
    /\ StartsWithAtCI(t, "view", i)
    /\ StartsWithAtCI(t, "profile", j)
    /\ \A k \in (i + 4)..(j - 1) : NotNewline(Char(t, k))

MinSentenceLength == 20
MaxSentenceLength == 300

IsGoodSentence(t) ==
  /\ Len(t) >= MinSentenceLength
  /\ Len(t) <= MaxSentenceLength
  /\ ~\E j \in 1..Len(JunkPhrases) : includes(toLowerCase(t), JunkPhrases[j])
  /\ ~ViewProfile(t)

\* /\-\s*(.+?)\s*\|/, its group starting at g: where the group can end
BioEnds(s, g) ==
  {e \in g..RunEnd(s, g, NotNewline) : Char(s, SkipWs(s, e + 1)) = "|"}

\* its dash at i: where the group can start
BioStarts(s, i) == {g \in (i + 1)..SkipWs(s, i + 1) : BioEnds(s, g) # {}}

BioDashes(s) == {i \in 1..Len(s) : Char(s, i) = "-" /\ BioStarts(s, i) # {}}

BioTitleFrom(s, i) ==
  Only({SubSeq(s, g, Least(BioEnds(s, g))) : g \in {Greatest(BioStarts(s, i))}})

\* titleMatch[1] ("" when the pattern does not match): the leftmost dash, the
\* longest whitespace run after it, the shortest group
BioTitleGroup(s) ==
  Only({IF dashes = {} THEN "" ELSE BioTitleFrom(s, Least(dashes)) :
          dashes \in {BioDashes(s)}})

BioPlaceholder == "LinkedIn profile (bio not available)"

GoodSentences(pieces) == {k \in 1..Len(pieces) : IsGoodSentence(trim(pieces[k]))}

BioFrom(pieces, pageTitle) ==
  Only({IF good # {} THEN cleanExtractedText(trim(pieces[Least(good)]))
        ELSE Only({IF t # "" THEN cleanExtractedText(t) ELSE BioPlaceholder :
                     t \in {BioTitleGroup(pageTitle)}}) :
          good \in {GoodSentences(pieces)}})

extractBio(text, highlights, pageTitle) ==
  Only({BioFrom(pieces, pageTitle) :
          pieces \in {SplitSentences(highlights \o " " \o text)}})

\* highlights.join(' ')
RECURSIVE Join(_)
Join(parts) ==
  IF parts = <<>> THEN ""
  ELSE IF Len(parts) = 1 THEN parts[1]
  ELSE parts[1] \o " " \o Join(Tail(parts))

\* name, jobTitle and company after the body passes and the target-company pass
\* The body passes, run when the text or the highlights are long enough
BodyPasses(fullText, fields, old) ==
  Only({AbbrevPass(fullText, [f EXCEPT !.jobTitle = ExperiencePass(fullText, f.jobTitle)], old) :
          f \in {fields}})

BodyStage(text, highlights, fields, old) ==
  Only({IF Len(text) > MinBodyLength \/ Len(highlights) > MinBodyLength
          THEN BodyPasses(text \o " " \o highlights, f, old)
          ELSE f :
          f \in {fields}})

\* The target-company pass, run when there is a company and any body text
CompanyStage(text, highlights, searchCompany, fields, old) ==
  Only({IF searchCompany # "" /\ (text # "" \/ highlights # "")
          THEN CompanyPass(text \o " " \o highlights, searchCompany, f, old)
          ELSE f :
          f \in {fields}})

\* name, jobTitle and company after the page title, the body passes and the
\* target-company pass
ExtractFields(result, searchCompany, old) ==
  Only({CompanyStage(r.text, h, searchCompany,
                     BodyStage(r.text, h, FromPageTitle(r.title), old), old) :
          r \in {result}, h \in {Join(result.highlights)}})

\* Math.random().toString(36).substr(2, 9), as far as the model tells draws apart
RandomSuffixes == {"k3j9x0q2w", "p7m1z8c4v"}

\* The profile from the cleaned fields: extractProfileData of route.ts (old = FALSE)
\* and of the sequential revision (old = TRUE); rnd is the draw of Math.random
ProfileOf(result, name, jobTitle, company, old, rnd) ==
  IF old
    THEN [id |-> result.id, name |-> name, title |-> jobTitle, company |-> company,
          linkedinUrl |-> result.url,
          summary |-> extractBio(result.text, Join(result.highlights), result.title)]
    ELSE [id |-> JsOr(JsOr(result.id, result.url), JStr("profile-" \o rnd)),
          name |-> name, title |-> cleanJobTitle(jobTitle, name), company |-> company,
          linkedinUrl |-> result.url]

CleanFields(result, fields, old, rnd) ==
  Only({ProfileOf(r, name, jobTitle, company, old, rnd) :
          r \in {result},
          name \in {cleanExtractedText(fields.name)},
          jobTitle \in {cleanExtractedText(fields.jobTitle)},
          company \in {cleanExtractedText(fields.company)}})

extractProfileData(result, searchCompany, old, rnd) ==
  CleanFields(result, ExtractFields(result, searchCompany, old), old, rnd)

(***************************************************************************)
(* The collaborators and the inputs of the model                           *)
(***************************************************************************)

\* The most results the search provider returns in the model
MaxResults == 10
\* The most profiles an export request carries in the model
MaxExport == 2

RECURSIVE ToDigits(_)
ToDigits(n) ==
  IF n < 10 THEN Char(DigitChars, n + 1)
  ELSE ToDigits(n \div 10) \o Char(DigitChars, (n % 10) + 1)

ProfileUrl(k) == "https://www.linkedin.com/in/p" \o ToDigits(k)

\* The page title of the k-th result of the provider
PoolTitle(k) ==
  CASE k = 1 -> "Ann Lee - Engineer at Acme | LinkedIn"
    [] k = 2 -> "Bob Roy - Software Engineer @ Acme | LinkedIn"
    [] k = 3 -> "Acme | LinkedIn"
    [] k = 4 -> "Cy Poe - Acme | LinkedIn"
    [] k = 5 -> "Dee Fox - Head of Engineering at Acme | LinkedIn"
    [] k = 6 -> "Engineer at Acme | LinkedIn"
    [] k = 7 -> "Eli Kay - Co-Founder at Beta | LinkedIn"
    [] k = 8 -> "Flo Ng - Engineer at Acme | LinkedIn"
    [] k = 9 -> "Gus Ott - Data Engineer at Acme | LinkedIn"
    [] OTHER -> "Hal Ito - ML Engineer at Acme | LinkedIn"

\* Its URL: a company page, a job posting, a profile; the fourth has no id
PoolUrl(k) ==
  CASE k = 3 -> "https://www.linkedin.com/company/acme"
    [] k = 6 -> "https://www.linkedin.com/in/p6/jobs/"
    [] OTHER -> ProfileUrl(k)

PoolResult(k) ==
  [id |-> IF k = 4 THEN JUndef ELSE JStr("exa-" \o ToDigits(k)),
   url |-> JStr(PoolUrl(k)),
   title |-> PoolTitle(k),
   text |-> IF k = 2 THEN "Software Engineer at Acme" ELSE "",
   highlights |-> <<>>]

\* response.results of a search that succeeds: the first n results
ExaResults(n) == [k \in 1..n |-> PoolResult(k)]

\* error.message of a search that fails
ExaErrorMessages == {"fetch failed", "Request timeout", "Invalid API key", "Rate limited", ""}

\* What the chat completion may answer
GoodReply ==
  JObj([company |-> JStr("Acme"), jobTitle |-> JStr("Engineer"),
        titleVariations |-> JArr(<<JStr("Member of Technical Staff"), JStr("Co-Founder")>>)])

LlmReplies ==
  { [kind |-> "error"], [kind |-> "nochoice"], [kind |-> "empty"], [kind |-> "badjson"],
    [kind |-> "json", value |-> JNull],
    [kind |-> "json", value |-> GoodReply],
    [kind |-> "json", value |-> JObj([company |-> JStr(""), jobTitle |-> JStr("Founder")])],
    [kind |-> "json", value |-> JObj([company |-> JNum(5), jobTitle |-> JStr("engineer")])],
    [kind |-> "json", value |-> JObj([jobTitle |-> JStr("pilot"),
                                      titleVariations |-> JArr(<<JNum(7)>>)])],
    [kind |-> "json", value |-> JObj([titleVariations |-> JStr("MTS")])] }

\* The query of a search request: missing, empty, blank, or text
Queries == {JUndef, JStr(""), JStr(" "), JStr("engineer at Acme"), JStr("founders")}

\* The contacts the CRM holds when a request arrives
InitialCrm ==
  { [id |-> "c2", url |-> ProfileUrl(2)], [id |-> "c8", url |-> ProfileUrl(8)] }

\* searchApi.doSearch with an EQ filter on hs_linkedin_url and limit 1: the
\* result lists the CRM may answer with
CrmSearch(contacts, url) ==
  LET hits == {c \in contacts : url.t = "string" /\ c.url = url.v}
  IN  IF hits = {} THEN {<<>>} ELSE {<<c>> : c \in hits}

\* A profile as the export request carries it
ExportProfile(k) ==
  [id |-> JStr("exa-" \o ToDigits(k)), name |-> "P" \o ToDigits(k), title |-> "Engineer",
   company |-> "Acme", linkedinUrl |-> JStr(ProfileUrl(k)), inHubSpot |-> FALSE]

\* The profiles of an export request: missing, not an array, or a list
ExportBodies ==
  {JUndef, JStr("p1"), JObj([name |-> JStr("P1")])}
    \cup {JArr([k \in 1..n |-> ExportProfile(k)]) : n \in 0..MaxExport}

(***************************************************************************)
(* The routes as a state machine: one request per behaviour                *)
(***************************************************************************)

VARIABLES
  kind,                \* "search" or "export": the route the request reaches
  rev,                 \* the revision of the search route: "batched" is
                       \* app/api/search/route.ts, "sequential" is unnamed/part_000
  openaiKey,           \* process.env.OPENAI_API_KEY is set
  hubspotToken,        \* process.env.HUBSPOT_ACCESS_TOKEN is set
  body,                \* the request body: its query, or its profiles
  pc,                  \* where the handler is
  llmCalls,            \* chat completions requested so far
  llmReply,            \* the completion the handler received
  exaCalls,            \* searches requested so far, by their query text
  crmCalls,            \* CRM calls issued so far, in order
  exaOutcome,          \* how the search ended
  searchIntelligence,  \* what parseQueryWithGPT returned
  companyFromQuery,
  jobTitleFromQuery,
  titleVariations,
  results,             \* response.results of the search
  extractCalls,        \* the results extractProfileData was called with
  finalProfiles,
  i,                   \* position of the loop of checkHubSpotStatus / syncToHubSpot
  lookups,             \* the promises of the current batch
  failedLookups,       \* the positions in finalProfiles whose lookup threw
  profilesWithStatus,
  syncResults,         \* the counters of syncToHubSpot
  crm,                 \* the contacts of the CRM
  response             \* the HTTP response

vars ==
  <<kind, rev, openaiKey, hubspotToken, body, pc, llmCalls, llmReply, exaCalls, crmCalls,
    exaOutcome, searchIntelligence, companyFromQuery, jobTitleFromQuery,
    titleVariations, results, extractCalls, finalProfiles, i, lookups, failedLookups,
    profilesWithStatus, syncResults, crm, response>>

NoResponse == [status |-> 0]
NoReply == [kind |-> "none"]
NoIntelligence == [company |-> JUndef, jobTitle |-> JUndef, titleVariations |-> JUndef]
NoCounters == [created |-> 0, updated |-> 0, failed |-> 0]

Init ==
  /\ \/ /\ kind = "search"
        /\ rev \in {"batched", "sequential"}
        /\ openaiKey \in BOOLEAN
        /\ hubspotToken \in BOOLEAN
        /\ body \in {[query |-> q] : q \in Queries}
     \/ /\ kind = "export"
        /\ rev = "sequential"
        /\ openaiKey = TRUE
        /\ hubspotToken = TRUE
        /\ body \in {[profiles |-> b] : b \in ExportBodies}
  /\ pc = "received"
  /\ llmCalls = 0
  /\ llmReply = NoReply
  /\ exaCalls = <<>>
  /\ crmCalls = <<>>
  /\ exaOutcome = "none"
  /\ searchIntelligence = NoIntelligence
  /\ companyFromQuery = JUndef
  /\ jobTitleFromQuery = JUndef
  /\ titleVariations = JUndef
  /\ results = <<>>
  /\ extractCalls = <<>>
  /\ finalProfiles = <<>>
  /\ i = 0
  /\ lookups = <<>>
  /\ failedLookups = {}
  /\ profilesWithStatus = <<>>
  /\ syncResults = NoCounters
  /\ crm = InitialCrm
  /\ response = NoResponse

\* Seeded fault for C9: the pattern's answer first, the model's as a fallback
InterpretBaselineFirst(intelligence, query) ==
  [company |-> JsOr(JStr(extractCompanyFromQuery(query)), intelligence.company),
   jobTitle |-> JsOr(JStr(extractJobTitleFromQuery(query)), intelligence.jobTitle),
   titleVariations |-> JsOr(intelligence.titleVariations, JArr(<<>>))]

\* The filters the search applies to what the query was understood to mean
\* (route.ts 20-25): the model's answer first, the pattern as a fallback
Interpret(intelligence, query) ==
  [company |-> JsOr(intelligence.company, JStr(extractCompanyFromQuery(query))),
   jobTitle |-> JsOr(intelligence.jobTitle, JStr(extractJobTitleFromQuery(query))),
   titleVariations |-> JsOr(intelligence.titleVariations, JArr(<<>>))]

\* Seeded fault for C6: only a query that is absent is refused
QueryUndefined(query) == query.t = "undefined"

\* `if (!query)` (route.ts 13)
QueryMissing(query) == ~Truthy(query)

\* POST of the search route up to its first await (route.ts 6-18)
SearchReceive ==
  /\ kind = "search"
  /\ pc = "received"
  /\ IF QueryMissing(body.query)
       THEN /\ response' = [status |-> 400, error |-> "Query is required"]
            /\ pc' = "done"
            /\ UNCHANGED <<llmCalls, exaCalls, searchIntelligence, companyFromQuery,
                           jobTitleFromQuery, titleVariations>>
       ELSE IF openaiKey
         THEN /\ llmCalls' = llmCalls + 1
              /\ pc' = "gpt"
              /\ UNCHANGED <<response, exaCalls, searchIntelligence, companyFromQuery,
                             jobTitleFromQuery, titleVariations>>
         ELSE \E t \in {Interpret(EmptyParsedQuery, body.query.v)} :
              /\ searchIntelligence' = EmptyParsedQuery
              /\ companyFromQuery' = t.company
              /\ jobTitleFromQuery' = t.jobTitle
              /\ titleVariations' = t.titleVariations
              /\ exaCalls' = Append(exaCalls, body.query.v)
              /\ pc' = "exa"
              /\ UNCHANGED <<response, llmCalls>>
  /\ UNCHANGED <<results, failedLookups, kind, rev, openaiKey, hubspotToken, body, llmReply, crmCalls, exaOutcome,
                 extractCalls, finalProfiles, i, lookups, profilesWithStatus,
                 syncResults, crm>>

\* The completion arrives; parseQueryWithGPT returns and the search is requested
\* (route.ts 18-39, 156-215)
GptReturn(reply) ==
  /\ pc = "gpt"
  /\ \E t \in {Interpret(parseQueryWithGPTReturn(reply), body.query.v)} :
     /\ llmReply' = reply
     /\ searchIntelligence' = parseQueryWithGPTReturn(reply)
     /\ companyFromQuery' = t.company
     /\ jobTitleFromQuery' = t.jobTitle
     /\ titleVariations' = t.titleVariations
  /\ exaCalls' = Append(exaCalls, body.query.v)
  /\ pc' = "exa"
  /\ UNCHANGED <<results, failedLookups, kind, rev, openaiKey, hubspotToken, body, llmCalls, crmCalls, exaOutcome,
                 extractCalls, finalProfiles, i, lookups, profilesWithStatus,
                 syncResults, crm, response>>

\* The message of the 500 response for a thrown error (route.ts 102-117)
ErrorMessageFor(message) ==
  IF message = "" THEN "Failed to search profiles"
  ELSE IF includes(message, "fetch failed") \/ includes(message, "timeout")
    THEN "Search timed out. Exa API may be slow or unreachable. Please try again."
  ELSE IF includes(message, "API key")
    THEN "Invalid Exa API key. Please check your configuration."
  ELSE message

\* The search provider fails: the catch block answers (route.ts 97-117)
ExaFail(message) ==
  /\ pc = "exa"
  /\ exaOutcome' = "failed"
  /\ response' = [status |-> 500, error |-> ErrorMessageFor(message)]
  /\ pc' = "done"
  /\ UNCHANGED <<results, failedLookups, kind, rev, openaiKey, hubspotToken, body, llmReply, llmCalls, exaCalls, crmCalls,
                 searchIntelligence, companyFromQuery, jobTitleFromQuery,
                 titleVariations, extractCalls, finalProfiles, i, lookups, profilesWithStatus, syncResults, crm>>

\* Seeded fault for C1: the filter without its two exclusions
HasProfileSegment(result) ==
  LET url == JsOr(result.url, JStr("")) IN
    /\ url.t = "string"
    /\ includes(url.v, "linkedin.com/in/")

\* The URL filter on a search result (route.ts 59-66)
IsProfileUrl(result) ==
  LET url == JsOr(result.url, JStr("")) IN
    /\ url.t = "string"
    /\ includes(url.v, "linkedin.com/in/")
    /\ ~includes(url.v, "/jobs/")
    /\ ~includes(url.v, "/company/")

\* extractProfileData throws on a company that is truthy but no string, when
\* it reaches searchCompany.replace (route.ts 571-574)
ExtractThrows(result, company) ==
  /\ Truthy(company)
  /\ company.t # "string"
  /\ (result.text # "" \/ Join(result.highlights) # "")

\* The strings of a variation list up to its first element that is no string
RECURSIVE StringPrefix(_)
StringPrefix(items) ==
  IF items = <<>> \/ Head(items).t # "string" THEN <<>>
  ELSE <<Head(items).v>> \o StringPrefix(Tail(items))

\* What the loop `for (const variation of titleVariations)` iterates over
VariationItems(variations) ==
  IF variations.t = "array" THEN variations.v
  ELSE IF variations.t = "string"
    THEN [k \in 1..Len(variations.v) |-> JStr(Char(variations.v, k))]
  ELSE <<>>

\* hasMatchingJobTitle when the loop over the variations meets an element that
\* is no string: it has returned before the loop, or at a string before that
\* element, or it throws (route.ts 235-262)
MatchUpToThrow(profile, searchedTitle, strings) ==
  IF \/ DirectMatch(normalizeTitle(toLowerCase(profile.title)),
                    normalizeTitle(toLowerCase(searchedTitle)))
     \/ FounderRuleDecides(normalizeTitle(toLowerCase(profile.title)),
                           normalizeTitle(toLowerCase(searchedTitle)))
     \/ VariationMatch(normalizeTitle(toLowerCase(profile.title)), strings)
    THEN IF hasMatchingJobTitle(profile, searchedTitle, strings) THEN "true" ELSE "false"
    ELSE "variation.toLowerCase is not a function"

\* hasMatchingJobTitle on the values the route passes: "true", "false", or the
\* message of the TypeError it throws (route.ts 218-294)
hasMatchingJobTitleJs(profile, searchedTitle, variations) ==
  IF TitleMissing(toLowerCase(profile.title)) THEN "false"
  ELSE IF searchedTitle.t # "string" THEN "searchedTitle.toLowerCase is not a function"
  ELSE Only({IF Len(strings) = Len(items)
               THEN IF hasMatchingJobTitle(profile, searchedTitle.v, strings)
                      THEN "true" ELSE "false"
               ELSE MatchUpToThrow(profile, searchedTitle.v, strings) :
               items \in {VariationItems(variations)},
               strings \in {StringPrefix(VariationItems(variations))}})

\* Seeded fault for C28: the title is only checked when there is no company
FilterVerdictCompanyFirst(profile, company, jobTitle, variations) ==
  IF Truthy(company) /\ company.t # "string"
    THEN "searchCompany.toLowerCase is not a function"
  ELSE IF Truthy(company)
    THEN (IF isCurrentEmployee(profile, company.v) THEN "keep" ELSE "drop")
  ELSE IF ~Truthy(jobTitle) THEN "keep"
  ELSE LET m == hasMatchingJobTitleJs(profile, jobTitle, variations) IN
         IF m = "true" THEN "keep" ELSE IF m = "false" THEN "drop" ELSE m

\* The callback of profiles.filter (route.ts 76-92): "keep", "drop", or the
\* message of the TypeError it throws
FilterVerdict(profile, company, jobTitle, variations) ==
  IF Truthy(company) /\ company.t # "string"
    THEN "searchCompany.toLowerCase is not a function"
  ELSE IF Truthy(company) /\ ~isCurrentEmployee(profile, company.v) THEN "drop"
  ELSE IF ~Truthy(jobTitle) THEN "keep"
  ELSE LET m == hasMatchingJobTitleJs(profile, jobTitle, variations) IN
         IF m = "true" THEN "keep" ELSE IF m = "false" THEN "drop" ELSE m

\* JSON.stringify leaves out the properties whose value is undefined
TaggedKeys == {"id", "linkedinUrl", "hubSpotContactId"}

ToJson(profile) ==
  [key \in {k \in DOMAIN profile : k \notin TaggedKeys \/ profile[k].t # "undefined"}
     |-> profile[key]]

\* NextResponse.json({ profiles }) (route.ts 99)
ProfilesResponse(profiles) ==
  [status |-> 200, profiles |-> [k \in 1..Len(profiles) |-> ToJson(profiles[k])]]

\* One search of the CRM by LinkedIn URL, as the call log records it
SearchCall(profile) == [op |-> "search", url |-> profile.linkedinUrl, id |-> ""]

BATCH_SIZE == 5

Min(a, b) == IF a < b THEN a ELSE b

\* Seeded fault for C25: a slice holds one profile more than BATCH_SIZE
BatchAtOneMore(profiles, start) ==
  SubSeq(profiles, start + 1, Min(start + BATCH_SIZE + 1, Len(profiles)))

\* profiles.slice(start, start + BATCH_SIZE)
BatchAt(profiles, start) ==
  SubSeq(profiles, start + 1, Min(start + BATCH_SIZE, Len(profiles)))

Pending == [state |-> "pending"]
Settled(value) == [state |-> "settled", value |-> value]

\* checkHubSpotStatus up to its first await, with the response when it returns
\* at once (route.ts 302-315; part_000 393-404)
StartCheck(profiles) ==
  IF rev = "batched"
    THEN IF ~hubspotToken \/ Len(profiles) = 0
      THEN /\ response' = ProfilesResponse(
                  [k \in 1..Len(profiles) |-> [inHubSpot |-> FALSE] @@ profiles[k]])
           /\ pc' = "done"
           /\ UNCHANGED <<crmCalls, lookups>>
      ELSE /\ crmCalls' = crmCalls \o
                  [k \in 1..Len(BatchAt(profiles, 0)) |-> SearchCall(profiles[k])]
           /\ lookups' = [k \in 1..Len(BatchAt(profiles, 0)) |-> Pending]
           /\ pc' = "batch"
           /\ UNCHANGED response
    ELSE IF ~hubspotToken \/ Len(profiles) = 0
      THEN /\ response' = ProfilesResponse(profiles)
           /\ pc' = "done"
           /\ UNCHANGED <<crmCalls, lookups>>
      ELSE /\ crmCalls' = Append(crmCalls, SearchCall(profiles[1]))
           /\ pc' = "lookup"
           /\ UNCHANGED <<response, lookups>>

\* Math.random().toString(36).substr(2, 9) is read only for a result that has
\* neither id nor url
NeedsRandom(list) ==
  \E k \in 1..Len(list) : ~Truthy(JsOr(list[k].id, list[k].url))

\* The first position of a sequence of booleans that holds TRUE, or 0
FirstTrue(flags) ==
  Only({IF hits = {} THEN 0 ELSE Least(hits) : hits \in {{k \in 1..Len(flags) : flags[k]}}})

KeptOf(profiles, verdicts) ==
  Only({[k \in 1..Len(kept) |-> profiles[kept[k]]] :
          kept \in {SelectSeq([k \in 1..Len(profiles) |-> k], LAMBDA k : verdicts[k] = "keep")}})

\* profiles.filter(...) (route.ts 76-92): the message of the error it throws
\* ("" when it does not), and the profiles it keeps
FilterProfiles(profiles, company, jobTitle, variations) ==
  Only({Only({[error |-> IF failing > 0 THEN verdicts[failing] ELSE "",
               finalProfiles |-> IF failing > 0 THEN <<>> ELSE KeptOf(ps, verdicts)] :
                failing \in {FirstTrue([k \in 1..Len(ps) |-> verdicts[k] \notin {"keep", "drop"}])}}) :
          ps \in {profiles},
          verdicts \in {[k \in 1..Len(profiles) |->
                           FilterVerdict(profiles[k], company, jobTitle, variations)]}})

\* filteredResults.map(...) (route.ts 71-73)
ExtractAll(filteredResults, searchCompany, old, rnd) ==
  [k \in 1..Len(filteredResults) |->
     extractProfileData(filteredResults[k], searchCompany, old, rnd)]

\* The route from the results of the search to finalProfiles (route.ts 59-92),
\* on the results that passed the URL filter
PipelineOn(filteredResults, company, jobTitle, variations, old, rnd) ==
  Only({IF thrower > 0
          THEN [extractCalls |-> SubSeq(filteredResults, 1, thrower),
                error |-> "searchCompany.replace is not a function",
                finalProfiles |-> <<>>]
          ELSE Only({[extractCalls |-> filteredResults, error |-> f.error,
                      finalProfiles |-> f.finalProfiles] :
                       f \in {FilterProfiles(
                                ExtractAll(filteredResults,
                                           IF company.t = "string" THEN company.v ELSE "",
                                           old, rnd),
                                company, jobTitle, variations)}}) :
          thrower \in {FirstTrue([k \in 1..Len(filteredResults) |->
                                    ExtractThrows(filteredResults[k], company)])}})

SearchPipeline(list, company, jobTitle, variations, old, rnd) ==
  Only({PipelineOn(filteredResults, company, jobTitle, variations, old, rnd) :
          filteredResults \in {SelectSeq(list, IsProfileUrl)}})

\* How many results the search may return
ResultCounts == {0, 1, 3, MaxResults - 1, MaxResults}

\* The search returns n results: URL filter, extraction, match filter, and the
\* start of the duplicate check (route.ts 50-97)
ExaReturn(n) ==
  /\ pc = "exa"
  /\ exaOutcome' = "returned"
  /\ results' = ExaResults(n)
  /\ \E rnd \in (IF NeedsRandom(SelectSeq(ExaResults(n), IsProfileUrl))
                   THEN RandomSuffixes ELSE {""}) :
     \E out \in {SearchPipeline(ExaResults(n), companyFromQuery, jobTitleFromQuery,
                                titleVariations, rev = "sequential", rnd)} :
       /\ extractCalls' = out.extractCalls
       /\ IF out.error # ""
            THEN /\ response' = [status |-> 500, error |-> ErrorMessageFor(out.error)]
                 /\ pc' = "done"
                 /\ UNCHANGED <<finalProfiles, crmCalls, lookups>>
            ELSE /\ finalProfiles' = out.finalProfiles
                 /\ StartCheck(out.finalProfiles)
  /\ UNCHANGED <<failedLookups, kind, rev, openaiKey, hubspotToken, body, llmReply, llmCalls, exaCalls,
                 searchIntelligence, companyFromQuery, jobTitleFromQuery, titleVariations,
                 i, profilesWithStatus, syncResults, crm>>

\* Seeded fault for C2: a lookup that threw is annotated from the contacts as if
\* it had answered
AnnotateIgnoringFailure(profile, ok, found) ==
  [inHubSpot |-> Len(found) > 0,
   hubSpotContactId |-> IF Len(found) > 0 THEN JStr(found[1].id) ELSE JUndef] @@ profile

\* Seeded fault for C4: a lookup that answers marks its profile, hit or miss
AnnotateWheneverAnswered(profile, ok, found) ==
  IF ok
    THEN [inHubSpot |-> TRUE,
          hubSpotContactId |-> IF Len(found) > 0 THEN JStr(found[1].id) ELSE JUndef]
           @@ profile
    ELSE [inHubSpot |-> FALSE] @@ profile

\* What a lookup of the batched check returns for its profile (route.ts 317-339)
AnnotateBatched(profile, ok, found) ==
  IF ok
    THEN [inHubSpot |-> Len(found) > 0,
          hubSpotContactId |-> IF Len(found) > 0 THEN JStr(found[1].id) ELSE JUndef]
           @@ profile
    ELSE [inHubSpot |-> FALSE] @@ profile

\* What the sequential check pushes for its profile (part_000 421-444)
AnnotateSequential(profile, ok, found) ==
  IF ok /\ Len(found) > 0
    THEN [inHubSpot |-> TRUE, hubSpotContactId |-> JStr(found[1].id)] @@ profile
    ELSE [inHubSpot |-> FALSE] @@ profile

\* Seeded fault for C3: the values are kept in the order the promises settle
ResolvedInCompletionOrder(promises, k, value) ==
  [promises EXCEPT
     ![Least({j \in 1..Len(promises) : promises[j].state = "pending"})] = Settled(value)]

\* Promise.all keeps the value of the k-th promise at position k, whatever the
\* order the promises settle in (route.ts 316-341)
Resolved(promises, k, value) == [promises EXCEPT ![k] = Settled(value)]

\* The value Promise.all resolves with
BatchResults(promises) == [k \in 1..Len(promises) |-> promises[k].value]

\* One lookup of the current batch settles: the CRM answers, or the call rejects
LookupSettle(k, ok) ==
  /\ pc = "batch"
  /\ k \in 1..Len(lookups)
  /\ lookups[k].state = "pending"
  /\ \E found \in CrmSearch(crm, finalProfiles[i + k].linkedinUrl) :
       lookups' = Resolved(lookups, k, AnnotateBatched(finalProfiles[i + k], ok, found))
  /\ failedLookups' = IF ok THEN failedLookups ELSE failedLookups \cup {i + k}
  /\ UNCHANGED <<results, kind, rev, openaiKey, hubspotToken, body, llmReply, pc, llmCalls, exaCalls, crmCalls,
                 exaOutcome, searchIntelligence, companyFromQuery,
                 jobTitleFromQuery, titleVariations, extractCalls, finalProfiles, i,
                 profilesWithStatus, syncResults, crm, response>>

\* Promise.all of the batch resolves: its results are pushed, then the delay
\* before the next batch starts or the route answers (route.ts 343-354, 99)
BatchResolve ==
  /\ pc = "batch"
  /\ \A k \in 1..Len(lookups) : lookups[k].state = "settled"
  /\ profilesWithStatus' = profilesWithStatus \o BatchResults(lookups)
  /\ lookups' = <<>>
  /\ IF i + BATCH_SIZE < Len(finalProfiles)
       THEN /\ pc' = "delay"
            /\ UNCHANGED response
       ELSE /\ pc' = "done"
            /\ response' = ProfilesResponse(profilesWithStatus')
  /\ UNCHANGED <<results, failedLookups, kind, rev, openaiKey, hubspotToken, body, llmReply, llmCalls, exaCalls, crmCalls,
                 exaOutcome, searchIntelligence, companyFromQuery,
                 jobTitleFromQuery, titleVariations, extractCalls, finalProfiles, i,
                 syncResults, crm>>

\* delay(100) between two batches elapses: the next batch is issued
\* (route.ts 313-316, 346-348)
BatchDelayElapsed ==
  /\ pc = "delay"
  /\ i' = i + BATCH_SIZE
  /\ crmCalls' = crmCalls \o
       [k \in 1..Len(BatchAt(finalProfiles, i')) |-> SearchCall(finalProfiles[i' + k])]
  /\ lookups' = [k \in 1..Len(BatchAt(finalProfiles, i')) |-> Pending]
  /\ pc' = "batch"
  /\ UNCHANGED <<results, failedLookups, kind, rev, openaiKey, hubspotToken, body, llmReply, llmCalls, exaCalls,
                 exaOutcome, searchIntelligence, companyFromQuery, jobTitleFromQuery,
                 titleVariations, extractCalls, finalProfiles, profilesWithStatus, syncResults, crm, response>>

\* The sequential loop moves to its next profile, or returns and the route
\* answers (part_000 403-404, 447-454, 206)
SeqAdvance(pushed) ==
  /\ profilesWithStatus' = pushed
  /\ i' = i + 1
  /\ IF i + 1 < Len(finalProfiles)
       THEN /\ crmCalls' = Append(crmCalls, SearchCall(finalProfiles[i + 2]))
            /\ pc' = "lookup"
            /\ UNCHANGED response
       ELSE /\ pc' = "done"
            /\ response' = ProfilesResponse(pushed)
            /\ UNCHANGED crmCalls

\* The lookup of the sequential check settles (part_000 405-445)
SeqLookupSettle(ok) ==
  /\ pc = "lookup"
  /\ failedLookups' = IF ok THEN failedLookups ELSE failedLookups \cup {i + 1}
  /\ \E found \in CrmSearch(crm, finalProfiles[i + 1].linkedinUrl) :
       LET pushed == Append(profilesWithStatus,
                            AnnotateSequential(finalProfiles[i + 1], ok, found))
       IN  IF ok
             THEN /\ profilesWithStatus' = pushed
                  /\ pc' = "seqdelay"
                  /\ UNCHANGED <<i, crmCalls, response>>
             ELSE SeqAdvance(pushed)
  /\ UNCHANGED <<results, kind, rev, openaiKey, hubspotToken, body, llmReply, llmCalls, exaCalls,
                 exaOutcome, searchIntelligence, companyFromQuery, jobTitleFromQuery,
                 titleVariations, extractCalls, finalProfiles, lookups, syncResults, crm>>

\* delay(200) after a lookup that succeeded elapses (part_000 435-436)
SeqDelayElapsed ==
  /\ pc = "seqdelay"
  /\ SeqAdvance(profilesWithStatus)
  /\ UNCHANGED <<results, failedLookups, kind, rev, openaiKey, hubspotToken, body, llmReply, llmCalls, exaCalls,
                 exaOutcome, searchIntelligence, companyFromQuery, jobTitleFromQuery,
                 titleVariations, extractCalls, finalProfiles, lookups, syncResults, crm>>

(***************************************************************************)
(* The export route                                                        *)
(***************************************************************************)

\* A cell of the CSV: undefined is written as the empty string
Cell(profile, key) ==
  IF key \notin DOMAIN profile THEN ""
  ELSE IF key \in TaggedKeys
    THEN IF profile[key].t = "string" THEN profile[key].v ELSE ""
  ELSE profile[key]

CsvFields == <<"Name", "Title", "Company", "Bio", "LinkedIn URL">>

\* Seeded fault for C22: the rows are written last profile first
CsvOfReversed(profiles) ==
  [fields |-> CsvFields,
   rows |-> [k \in 1..Len(profiles) |->
               <<Cell(profiles[Len(profiles) + 1 - k], "name"),
                 Cell(profiles[Len(profiles) + 1 - k], "title"),
                 Cell(profiles[Len(profiles) + 1 - k], "company"),
                 Cell(profiles[Len(profiles) + 1 - k], "summary"),
                 Cell(profiles[Len(profiles) + 1 - k], "linkedinUrl")>>]]

\* csvData and Papa.unparse (part_000 32-40)
CsvOf(profiles) ==
  [fields |-> CsvFields,
   rows |-> [k \in 1..Len(profiles) |->
               <<Cell(profiles[k], "name"), Cell(profiles[k], "title"),
                 Cell(profiles[k], "company"), Cell(profiles[k], "summary"),
                 Cell(profiles[k], "linkedinUrl")>>]]

\* `!profiles || !Array.isArray(profiles) || profiles.length === 0` (part_000 20)
NoProfilesProvided(profiles) ==
  ~Truthy(profiles) \/ profiles.t # "array" \/ Len(profiles.v) = 0

\* POST of the export route up to its first await (part_000 16-29, 57-65)
ExportReceive ==
  /\ kind = "export"
  /\ pc = "received"
  /\ IF NoProfilesProvided(body.profiles)
       THEN /\ response' = [status |-> 400, error |-> "No profiles provided"]
            /\ pc' = "done"
            /\ UNCHANGED crmCalls
       ELSE /\ crmCalls' = Append(crmCalls, SearchCall(body.profiles.v[1]))
            /\ pc' = "sync_search"
            /\ UNCHANGED response
  /\ UNCHANGED <<results, failedLookups, kind, rev, openaiKey, hubspotToken, body, llmReply, llmCalls, exaCalls,
                 exaOutcome, searchIntelligence, companyFromQuery, jobTitleFromQuery,
                 titleVariations, extractCalls, finalProfiles, i, lookups, profilesWithStatus, syncResults, crm>>

\* syncToHubSpot moves to its next profile, or returns and the route answers
\* with the CSV (part_000 64, 110-116, 32-48)
SyncAdvance ==
  /\ i' = i + 1
  /\ IF i + 1 < Len(body.profiles.v)
       THEN /\ crmCalls' = Append(crmCalls, SearchCall(body.profiles.v[i + 2]))
            /\ pc' = "sync_search"
            /\ UNCHANGED response
       ELSE /\ pc' = "done"
            /\ response' = [status |-> 200, csv |-> CsvOf(body.profiles.v)]
            /\ UNCHANGED crmCalls

\* The lookup of the export settles: a write is issued, or the failure is
\* counted (part_000 65-108)
SyncSearchSettle(ok) ==
  /\ pc = "sync_search"
  /\ IF ok
       THEN \E found \in CrmSearch(crm, body.profiles.v[i + 1].linkedinUrl) :
              /\ crmCalls' = Append(crmCalls,
                   IF Len(found) > 0
                     THEN [op |-> "update", url |-> body.profiles.v[i + 1].linkedinUrl,
                           id |-> found[1].id]
                     ELSE [op |-> "create", url |-> body.profiles.v[i + 1].linkedinUrl,
                           id |-> ""])
              /\ pc' = "sync_write"
              /\ UNCHANGED <<i, syncResults, response>>
       ELSE /\ syncResults' = [syncResults EXCEPT !.failed = @ + 1]
            /\ SyncAdvance
  /\ UNCHANGED <<results, failedLookups, kind, rev, openaiKey, hubspotToken, body, llmReply, llmCalls, exaCalls,
                 exaOutcome, searchIntelligence, companyFromQuery, jobTitleFromQuery,
                 titleVariations, extractCalls, finalProfiles, lookups, profilesWithStatus, crm>>

\* The id the CRM gives a contact it creates
NewContactId(contacts) == "n" \o ToDigits(Cardinality(contacts) + 1)

\* Seeded fault for C23: a write that throws is not counted
SyncWriteSettleUncounted(ok) ==
  /\ pc = "sync_write"
  /\ LET call == crmCalls[Len(crmCalls)] IN
       IF ~ok
         THEN UNCHANGED <<syncResults, crm>>
         ELSE IF call.op = "update"
           THEN /\ syncResults' = [syncResults EXCEPT !.updated = @ + 1]
                /\ UNCHANGED crm
           ELSE /\ syncResults' = [syncResults EXCEPT !.created = @ + 1]
                /\ crm' = crm \cup {[id |-> NewContactId(crm), url |-> call.url.v]}
  /\ SyncAdvance
  /\ UNCHANGED <<results, failedLookups, kind, rev, openaiKey, hubspotToken, body, llmReply, llmCalls, exaCalls,
                 exaOutcome, searchIntelligence, companyFromQuery, jobTitleFromQuery,
                 titleVariations, extractCalls, finalProfiles, lookups, profilesWithStatus>>

\* The update or create of the export settles (part_000 85-113)
SyncWriteSettle(ok) ==
  /\ pc = "sync_write"
  /\ LET call == crmCalls[Len(crmCalls)] IN
       IF ~ok
         THEN /\ syncResults' = [syncResults EXCEPT !.failed = @ + 1]
              /\ UNCHANGED crm
         ELSE IF call.op = "update"
           THEN /\ syncResults' = [syncResults EXCEPT !.updated = @ + 1]
                /\ UNCHANGED crm
           ELSE /\ syncResults' = [syncResults EXCEPT !.created = @ + 1]
                /\ crm' = crm \cup {[id |-> NewContactId(crm), url |-> call.url.v]}
  /\ SyncAdvance
  /\ UNCHANGED <<results, failedLookups, kind, rev, openaiKey, hubspotToken, body, llmReply, llmCalls, exaCalls,
                 exaOutcome, searchIntelligence, companyFromQuery, jobTitleFromQuery,
                 titleVariations, extractCalls, finalProfiles, lookups, profilesWithStatus>>

Next ==
  \/ SearchReceive
  \/ \E reply \in LlmReplies : GptReturn(reply)
  \/ \E message \in ExaErrorMessages : ExaFail(message)
  \/ \E n \in ResultCounts : ExaReturn(n)
  \/ \E k \in 1..BATCH_SIZE, ok \in BOOLEAN : LookupSettle(k, ok)
  \/ BatchResolve
  \/ BatchDelayElapsed
  \/ \E ok \in BOOLEAN : SeqLookupSettle(ok)
  \/ SeqDelayElapsed
  \/ ExportReceive
  \/ \E ok \in BOOLEAN : SyncSearchSettle(ok)
  \/ \E ok \in BOOLEAN : SyncWriteSettle(ok)

Spec == Init /\ [][Next]_vars

\* The routes when every lookup of a batch settles, the continuation of a
\* settled Promise.all is run and the timer of delay(100) fires
SpecSettling ==
  /\ Spec
  /\ WF_vars(\E k \in 1..BATCH_SIZE, ok \in BOOLEAN : LookupSettle(k, ok))
  /\ WF_vars(BatchResolve)
  /\ WF_vars(BatchDelayElapsed)

(***************************************************************************)
(* hasMatchingJobTitle on its own: one profile title, one searched title   *)
(* and one variation list per behaviour, called without and with the list  *)
(***************************************************************************)

\* The longest variation list
MaxVariations == 2

ProfileTitles ==
  {"Engineer", "Software Developer", "Co-Founder & CEO", "Head of Data", "Not specified",
   "", "Member of Technical Staff", "VP Sales", "NOT SPECIFIED", "Founder & CEO",
   "Cofounder and CTO", "Director of Engineering", "Chief of Staff"}

SearchedTitles ==
  {"engineer", "founder", "co-founder", "director", "data scientist", "", "cofounder",
   "head", "professor"}

VariationPool == {"Member of Technical Staff", "MTS", "Founder", "Head"}

VariationLists ==
  UNION {[1..n -> VariationPool] : n \in 0..MaxVariations}

\* What a call has returned: nothing before it is made, then its one value
NotCalled == <<>>

InitTitle ==
  /\ kind = "hasMatchingJobTitle"
  /\ rev = "batched"
  /\ openaiKey = TRUE
  /\ hubspotToken = TRUE
  /\ body \in {[profile |-> [title |-> t], searchedTitle |-> q, titleVariations |-> v] :
                 t \in ProfileTitles, q \in SearchedTitles, v \in VariationLists}
  /\ pc = "received"
  /\ llmCalls = 0
  /\ llmReply = NoReply
  /\ exaCalls = <<>>
  /\ crmCalls = <<>>
  /\ exaOutcome = "none"
  /\ searchIntelligence = NoIntelligence
  /\ companyFromQuery = JUndef
  /\ jobTitleFromQuery = JUndef
  /\ titleVariations = JUndef
  /\ results = <<>>
  /\ extractCalls = <<>>
  /\ finalProfiles = <<>>
  /\ i = 0
  /\ lookups = <<>>
  /\ failedLookups = {}
  /\ profilesWithStatus = <<>>
  /\ syncResults = NoCounters
  /\ crm = InitialCrm
  /\ response = [bare |-> NotCalled, varied |-> NotCalled]

\* hasMatchingJobTitle(profile, searchedTitle): titleVariations defaults to []
CallBare ==
  /\ kind = "hasMatchingJobTitle"
  /\ response.bare = NotCalled
  /\ response' = [response EXCEPT
                    !.bare = <<hasMatchingJobTitle(body.profile, body.searchedTitle, <<>>)>>]
  /\ UNCHANGED <<kind, rev, openaiKey, hubspotToken, body, pc, llmCalls, llmReply, exaCalls,
                 crmCalls, exaOutcome, searchIntelligence, companyFromQuery,
                 jobTitleFromQuery, titleVariations, results, extractCalls, finalProfiles,
                 i, lookups, failedLookups, profilesWithStatus, syncResults, crm>>

\* hasMatchingJobTitle(profile, searchedTitle, titleVariations)
CallVaried ==
  /\ kind = "hasMatchingJobTitle"
  /\ response.varied = NotCalled
  /\ response' = [response EXCEPT
                    !.varied = <<hasMatchingJobTitle(body.profile, body.searchedTitle,
                                                     body.titleVariations)>>]
  /\ UNCHANGED <<kind, rev, openaiKey, hubspotToken, body, pc, llmCalls, llmReply, exaCalls,
                 crmCalls, exaOutcome, searchIntelligence, companyFromQuery,
                 jobTitleFromQuery, titleVariations, results, extractCalls, finalProfiles,
                 i, lookups, failedLookups, profilesWithStatus, syncResults, crm>>

NextTitle == CallBare \/ CallVaried

SpecTitle == InitTitle /\ [][NextTitle]_vars

\* The filter of the search route and the title matching on its own, side by
\* side: a behaviour is one request or one pair of calls
SpecFilter == (Init \/ InitTitle) /\ [][Next \/ NextTitle]_vars

(***************************************************************************)
(* isCurrentEmployee on its own: one profile company and one searched      *)
(* company per behaviour, called as given and with the two exchanged       *)
(***************************************************************************)

CompanyNames ==
  {"", "Not specified", "NOT SPECIFIED", "not specified", "OpenAI", "OpenAI Research",
   "openai", "Acme", "Acme Corp", "Not specified Inc", "Beta"}

\* The variables of the routes while a function is called on its own
RouteIdle ==
  /\ rev = "batched"
  /\ openaiKey = TRUE
  /\ hubspotToken = TRUE
  /\ pc = "received"
  /\ llmCalls = 0
  /\ llmReply = NoReply
  /\ exaCalls = <<>>
  /\ crmCalls = <<>>
  /\ exaOutcome = "none"
  /\ searchIntelligence = NoIntelligence
  /\ companyFromQuery = JUndef
  /\ jobTitleFromQuery = JUndef
  /\ titleVariations = JUndef
  /\ results = <<>>
  /\ extractCalls = <<>>
  /\ finalProfiles = <<>>
  /\ i = 0
  /\ lookups = <<>>
  /\ failedLookups = {}
  /\ profilesWithStatus = <<>>
  /\ syncResults = NoCounters
  /\ crm = InitialCrm

RouteUnchanged ==
  UNCHANGED <<kind, rev, openaiKey, hubspotToken, body, pc, llmCalls, llmReply, exaCalls,
              crmCalls, exaOutcome, searchIntelligence, companyFromQuery,
              jobTitleFromQuery, titleVariations, results, extractCalls, finalProfiles,
              i, lookups, failedLookups, profilesWithStatus, syncResults, crm>>

InitCompany ==
  /\ kind = "isCurrentEmployee"
  /\ body \in {[profile |-> [company |-> c], searchCompany |-> t] :
                 c \in CompanyNames, t \in CompanyNames}
  /\ RouteIdle
  /\ response = [direct |-> NotCalled, swapped |-> NotCalled]

\* isCurrentEmployee(profile, searchCompany)
CallDirect ==
  /\ kind = "isCurrentEmployee"
  /\ response.direct = NotCalled
  /\ response' = [response EXCEPT
                    !.direct = <<isCurrentEmployee(body.profile, body.searchCompany)>>]
  /\ RouteUnchanged

\* isCurrentEmployee({company: searchCompany}, profile.company)
CallSwapped ==
  /\ kind = "isCurrentEmployee"
  /\ response.swapped = NotCalled
  /\ response' = [response EXCEPT
                    !.swapped = <<isCurrentEmployee([company |-> body.searchCompany],
                                                    body.profile.company)>>]
  /\ RouteUnchanged

NextCompany == CallDirect \/ CallSwapped

SpecCompany == InitCompany /\ [][NextCompany]_vars

(***************************************************************************)
(* extractProfileData on its own: one search result and one target company *)
(* per behaviour, taken through the steps of the function in their order,  *)
(* then run a second time on the same arguments                            *)
(***************************************************************************)

\* Page titles "N - T @ C | LinkedIn" and "N - T at C | LinkedIn"
FormNames == {"Chris Beaumont", "Ann Lee"}
FormTitles == {"Data Science", "VP of Sales - EMEA"}
FormCompanies == {"OpenAI"}
FormSeparators == {" @ ", " at "}

FormedTitle(n, t, sep, c) == n \o " - " \o t \o sep \o c \o " | LinkedIn"

PageTitles ==
  {FormedTitle(n, t, sep, c) :
     n \in FormNames, t \in FormTitles, sep \in FormSeparators, c \in FormCompanies}
    \cup {"Jane Doe - Acme | LinkedIn", "Jane Doe - Bank of America | LinkedIn",
          "Jane Doe - Leadership Inc | LinkedIn", "Jane Doe - Head of People and Culture",
          "Jane Doe | LinkedIn", "Ann Lee - (Current) @ Acme | LinkedIn"}

\* result.text when there is one: an Experience section, a Current line that
\* names no title
BodyTexts ==
  {"Experience: Staff Engineer\nAcme builds tools for teams",
   "Current: Not specified\nOpen to work, looking for a role"}

\* The page titles of the results that come with a text
TitlesWithText ==
  {FormedTitle("Chris Beaumont", "Data Science", " @ ", "OpenAI"),
   "Jane Doe - Acme | LinkedIn"}

\* result.text and result.highlights of at most MinBodyLength characters each:
\* an Experience section with highlights that make more than MinBodyLength
\* characters together, a text that only mentions a company, a text with a
\* name before the company
ShortTexts ==
  {[text |-> "Experience: VP of Engineering\nSeattle",
    highlights |-> <<"Builds tools", "for the teams at work">>],
   [text |-> "Acme alumni, open to work", highlights |-> <<>>],
   [text |-> "", highlights |-> <<"Jane Smith", "Acme">>]}

\* The page titles of the results that come with such a text
TitlesWithShortText == TitlesWithText \cup {"Jane Doe | LinkedIn"}

\* result.id and result.url: both, the URL only, neither
ResultKeys ==
  { [id |-> JStr("exa-1"), url |-> JStr(ProfileUrl(1))],
    [id |-> JUndef, url |-> JStr(ProfileUrl(1))],
    [id |-> JUndef, url |-> JUndef] }

SearchResults ==
  {[id |-> k.id, url |-> k.url, title |-> t, text |-> "", highlights |-> <<>>] :
     k \in ResultKeys, t \in PageTitles}
    \cup {[id |-> JStr("exa-1"), url |-> JStr(ProfileUrl(1)), title |-> t, text |-> x,
           highlights |-> <<>>] : t \in TitlesWithText, x \in BodyTexts}
    \cup {[id |-> JStr("exa-1"), url |-> JStr(ProfileUrl(1)), title |-> t,
           text |-> x.text, highlights |-> x.highlights] :
             t \in TitlesWithShortText, x \in ShortTexts}

TargetCompanies == {"", "Acme"}

\* let name = 'Unknown', jobTitle = 'Not specified', company = 'Not specified'
InitialFields == [name |-> UnknownName, jobTitle |-> Sentinel, company |-> Sentinel]

InitExtract ==
  /\ kind = "extractProfileData"
  /\ body \in {[result |-> r, searchCompany |-> c] :
                 r \in SearchResults, c \in TargetCompanies}
  /\ RouteIdle
  /\ response = [fields |-> InitialFields, first |-> NotCalled, second |-> NotCalled]

ExtractUnchanged ==
  UNCHANGED <<kind, rev, openaiKey, hubspotToken, body, llmCalls, llmReply, exaCalls,
              crmCalls, exaOutcome, searchIntelligence, companyFromQuery,
              jobTitleFromQuery, titleVariations, results, extractCalls, finalProfiles,
              i, lookups, failedLookups, profilesWithStatus, syncResults, crm>>

\* The draws of Math.random a run can make: the template of the id is only
\* evaluated when result.id and result.url are both falsy (route.ts 591)
DrawsFor(result) ==
  IF Truthy(JsOr(result.id, result.url))
    THEN {CHOOSE rnd \in RandomSuffixes : TRUE}
    ELSE RandomSuffixes

\* The step from one stage of the function to the next, with the fields after it
ExtractStep(from, to, fields) ==
  /\ kind = "extractProfileData"
  /\ pc = from
  /\ pc' = to
  /\ response' = [response EXCEPT !.fields = fields]
  /\ ExtractUnchanged

\* The suffix is stripped and the page title is split (route.ts 440-500)
SplitStep ==
  ExtractStep("received", "split", SplitPageTitle(StripLinkedInSuffix(body.result.title)))

\* Whitespace is collapsed and the special characters at the ends of jobTitle
\* and company are removed (route.ts 503-509)
TidyFields(fields) ==
  [name |-> trim(CollapseWs(fields.name)),
   jobTitle |-> TidyField(fields.jobTitle),
   company |-> TidyField(fields.company)]

TidyStep == ExtractStep("split", "tidied", TidyFields(response.fields))

\* The Experience, Current and abbreviation patterns over the body text
\* (route.ts 513-548)
BodyStep ==
  ExtractStep("tidied", "body",
              BodyStage(body.result.text, Join(body.result.highlights), response.fields,
                        FALSE))

\* The pattern built from the target company (route.ts 551-580)
CompanyStep ==
  ExtractStep("body", "company",
              CompanyStage(body.result.text, Join(body.result.highlights),
                           body.searchCompany, response.fields, FALSE))

\* cleanExtractedText on the three fields (route.ts 583-585)
CleanTextFields(fields) ==
  [name |-> cleanExtractedText(fields.name),
   jobTitle |-> cleanExtractedText(fields.jobTitle),
   company |-> cleanExtractedText(fields.company)]

CleanTextStep == ExtractStep("company", "cleaned", CleanTextFields(response.fields))

\* cleanJobTitle, and the profile is returned (route.ts 588-596); rnd is the draw
\* of Math.random
ReturnStep(rnd) ==
  /\ kind = "extractProfileData"
  /\ pc = "cleaned"
  /\ pc' = "returned"
  /\ response' =
       [response EXCEPT
          !.fields.jobTitle = cleanJobTitle(@, response.fields.name),
          !.first = <<ProfileOf(body.result, response.fields.name, response.fields.jobTitle,
                                response.fields.company, FALSE, rnd)>>]
  /\ ExtractUnchanged

\* extractProfileData(result, searchCompany) once more
SecondRun(rnd) ==
  /\ kind = "extractProfileData"
  /\ pc = "returned"
  /\ response.second = NotCalled
  /\ response' =
       [response EXCEPT
          !.second = <<extractProfileData(body.result, body.searchCompany, FALSE, rnd)>>]
  /\ UNCHANGED pc
  /\ ExtractUnchanged

NextExtract ==
  \/ SplitStep
  \/ TidyStep
  \/ BodyStep
  \/ CompanyStep
  \/ CleanTextStep
  \/ \E rnd \in DrawsFor(body.result) : ReturnStep(rnd)
  \/ \E rnd \in DrawsFor(body.result) : SecondRun(rnd)

SpecExtract == InitExtract /\ [][NextExtract]_vars

(***************************************************************************)
(* The export route with several requests in flight: every request runs    *)
(* POST and syncToHubSpot of part_000 on its own list of profiles, against *)
(* the one CRM; response[r] is where request r stands                      *)
(***************************************************************************)

\* How many export requests a behaviour has
MaxRequests == 2

\* The selections an export request may carry
ExportSelections == {[k \in 1..n |-> ExportProfile(k)] : n \in 1..MaxExport}

\* A request that has not arrived
NotArrived == [pc |-> "none", i |-> 0, found |-> <<>>, syncResults |-> NoCounters, status |-> 0]

InitExports ==
  /\ kind = "exports"
  /\ body \in {[requests |-> q] : q \in [1..MaxRequests -> ExportSelections]}
  /\ RouteIdle
  /\ response = [r \in 1..MaxRequests |-> NotArrived]

ExportsUnchanged ==
  UNCHANGED <<kind, rev, openaiKey, hubspotToken, body, pc, llmCalls, llmReply, exaCalls,
              crmCalls, exaOutcome, searchIntelligence, companyFromQuery,
              jobTitleFromQuery, titleVariations, results, extractCalls, finalProfiles,
              i, lookups, failedLookups, profilesWithStatus, syncResults>>

\* The request arrives and syncToHubSpot issues the lookup of its first profile
\* (part_000 8-30, 57-65)
ExportsReceive(r) ==
  /\ kind = "exports"
  /\ response[r].pc = "none"
  /\ response' = [response EXCEPT ![r].pc = "sync_search"]
  /\ UNCHANGED crm
  /\ ExportsUnchanged

\* The request after the profile at hand: the lookup of the next profile, or
\* the answer with the CSV (part_000 64, 110-116, 32-48)
Advanced(request, profiles, counter) ==
  [request EXCEPT
     !.syncResults[counter] = @ + 1,
     !.i = @ + 1,
     !.found = <<>>,
     !.pc = IF request.i + 1 < Len(profiles) THEN "sync_search" ELSE "done",
     !.status = IF request.i + 1 < Len(profiles) THEN 0 ELSE 200]

\* The lookup of request r settles (part_000 65-83, 105-108)
ExportsSearchSettle(r, ok) ==
  /\ kind = "exports"
  /\ response[r].pc = "sync_search"
  /\ IF ok
       THEN \E found \in CrmSearch(crm, body.requests[r][response[r].i + 1].linkedinUrl) :
              response' = [response EXCEPT ![r].pc = "sync_write", ![r].found = found]
       ELSE response' = [response EXCEPT ![r] = Advanced(@, body.requests[r], "failed")]
  /\ UNCHANGED crm
  /\ ExportsUnchanged

\* The update or the create of request r settles (part_000 85-108)
ExportsWriteSettle(r, ok) ==
  /\ kind = "exports"
  /\ response[r].pc = "sync_write"
  /\ IF ~ok
       THEN /\ response' = [response EXCEPT ![r] = Advanced(@, body.requests[r], "failed")]
            /\ UNCHANGED crm
       ELSE IF Len(response[r].found) > 0
         THEN /\ response' = [response EXCEPT ![r] = Advanced(@, body.requests[r], "updated")]
              /\ UNCHANGED crm
         ELSE /\ response' = [response EXCEPT ![r] = Advanced(@, body.requests[r], "created")]
              /\ crm' = crm \cup {[id |-> NewContactId(crm),
                                    url |-> body.requests[r][response[r].i + 1].linkedinUrl.v]}
  /\ ExportsUnchanged

NextExports ==
  \/ \E r \in 1..MaxRequests : ExportsReceive(r)
  \/ \E r \in 1..MaxRequests, ok \in BOOLEAN : ExportsSearchSettle(r, ok)
  \/ \E r \in 1..MaxRequests, ok \in BOOLEAN : ExportsWriteSettle(r, ok)

SpecExports == InitExports /\ [][NextExports]_vars

(***************************************************************************)
(* The page (src/app/page.tsx): the state of the Home component is in      *)
(* response, every event handler is one action, and a fetch in flight      *)
(* settles in an action of its own; sent is the body of the export         *)
(* requests sent last                                                      *)
(***************************************************************************)

\* What the search box may hold
UiQueries == {"", " ", "cto at Acme"}

UiProfile(id, inCrm) == [id |-> id, inHubSpot |-> inCrm]

\* data.profiles of a search that succeeds
UiResultLists ==
  {<<>>,
   <<UiProfile("a", FALSE)>>,
   <<UiProfile("a", FALSE), UiProfile("b", TRUE)>>,
   <<UiProfile("b", TRUE), UiProfile("c", FALSE), UiProfile("d", TRUE)>>}

\* data.error of a search that fails
UiErrors == {"Search failed", "fetch failed"}

\* useState(...) (page.tsx 15-21)
InitUi ==
  /\ kind = "ui"
  /\ body = [query |-> JUndef]
  /\ RouteIdle
  /\ response = [query |-> "", profiles |-> <<>>, selectedProfiles |-> {},
                  loading |-> FALSE, exporting |-> FALSE, error |-> "",
                  hideContacted |-> FALSE, sent |-> <<>>]

\* profiles.map(p => p.id)
IdsOf(profiles) == {profiles[k].id : k \in 1..Len(profiles)}

\* filteredProfiles (page.tsx 151-153)
FilteredProfiles(profiles, hide) ==
  IF hide THEN SelectSeq(profiles, LAMBDA p : ~p.inHubSpot) ELSE profiles

\* contactedCount (page.tsx 155)
ContactedCount(profiles) == Len(SelectSeq(profiles, LAMBDA p : p.inHubSpot))

\* onChange of the search box, disabled while loading (page.tsx 123-131)
SetQuery(q) ==
  /\ kind = "ui"
  /\ ~response.loading
  /\ q # response.query
  /\ response' = [response EXCEPT !.query = q]
  /\ RouteUnchanged

\* handleSearch up to its fetch (page.tsx 23-36); the button and the box are
\* disabled while loading
HandleSearch ==
  /\ kind = "ui"
  /\ ~response.loading
  /\ trim(response.query) # ""
  /\ response' = [response EXCEPT !.loading = TRUE, !.error = "", !.profiles = <<>>,
                                   !.selectedProfiles = {}]
  /\ RouteUnchanged

\* The search answers with profiles (page.tsx 38-44, 47-49)
SearchFetchOk(list) ==
  /\ kind = "ui"
  /\ response.loading
  /\ response' = [response EXCEPT !.profiles = list, !.loading = FALSE]
  /\ RouteUnchanged

\* The search fails (page.tsx 40-42, 45-49)
SearchFetchFails(message) ==
  /\ kind = "ui"
  /\ response.loading
  /\ response' = [response EXCEPT !.error = message, !.loading = FALSE]
  /\ RouteUnchanged

\* handleSelectAll (page.tsx 52-58), from the checkbox of the table head, which
\* is checked when selectedProfiles.size === profiles.length (page.tsx 199-204)
HandleSelectAll ==
  /\ kind = "ui"
  /\ Len(response.profiles) > 0
  /\ response' =
       [response EXCEPT
          !.selectedProfiles =
             IF Cardinality(response.selectedProfiles) # Len(response.profiles)
               THEN IdsOf(response.profiles)
               ELSE {}]
  /\ RouteUnchanged

\* handleSelectProfile (page.tsx 60-68), from the checkbox of a row of
\* filteredProfiles (page.tsx 216-225)
HandleSelectProfile(id) ==
  /\ kind = "ui"
  /\ id \in IdsOf(FilteredProfiles(response.profiles, response.hideContacted))
  /\ response' =
       [response EXCEPT
          !.selectedProfiles = IF id \in @ THEN @ \ {id} ELSE @ \cup {id}]
  /\ RouteUnchanged

\* The "Hide contacted" checkbox, shown when contactedCount > 0 (page.tsx 174-184)
ToggleHideContacted ==
  /\ kind = "ui"
  /\ ContactedCount(response.profiles) > 0
  /\ response' = [response EXCEPT !.hideContacted = ~@]
  /\ RouteUnchanged

\* handleExport up to its fetch (page.tsx 70-86); the button is shown with
\* the results and disabled with no selection or while exporting
HandleExport ==
  /\ kind = "ui"
  /\ Len(response.profiles) > 0
  /\ response.selectedProfiles # {}
  /\ ~response.exporting
  /\ response' =
       [response EXCEPT
          !.exporting = TRUE,
          !.sent = SelectSeq(response.profiles,
                             LAMBDA p : p.id \in response.selectedProfiles)]
  /\ RouteUnchanged

\* The export answers with the CSV (page.tsx 93-107, 110-112)
ExportFetchOk ==
  /\ kind = "ui"
  /\ response.exporting
  /\ response' = [response EXCEPT !.selectedProfiles = {}, !.exporting = FALSE]
  /\ RouteUnchanged

\* The export fails (page.tsx 88-91, 108-112)
ExportFetchFails ==
  /\ kind = "ui"
  /\ response.exporting
  /\ response' = [response EXCEPT !.exporting = FALSE]
  /\ RouteUnchanged

NextUi ==
  \/ \E q \in UiQueries : SetQuery(q)
  \/ HandleSearch
  \/ \E list \in UiResultLists : SearchFetchOk(list)
  \/ \E message \in UiErrors : SearchFetchFails(message)
  \/ HandleSelectAll
  \/ \E id \in IdsOf(response.profiles) : HandleSelectProfile(id)
  \/ ToggleHideContacted
  \/ HandleExport
  \/ ExportFetchOk
  \/ ExportFetchFails

SpecUi == InitUi /\ [][NextUi]_vars

(***************************************************************************)
(* The baseline interpretation on its own: one query per behaviour, given  *)
(* to extractCompanyFromQuery and to extractJobTitleFromQuery              *)
(***************************************************************************)

\* Queries "<title> at <Company>" and "<title> @ <Company>"
QueryTitles ==
  {"PM", "data scientists", "Engineers", "combat medics", "chat moderators",
   "Staff Engineer", "founders"}
QueryKeywords == {" at ", " @ "}
QueryCompanies == {"OpenAI", "Scale AI", "Meta", "Acme Corp"}

FormedQuery(t, kw, c) == t \o kw \o c

FormedQueries ==
  {FormedQuery(t, kw, c) : t \in QueryTitles, kw \in QueryKeywords, c \in QueryCompanies}

InitQuery ==
  /\ kind = "baseline"
  /\ body \in {[query |-> q] : q \in FormedQueries}
  /\ RouteIdle
  /\ response = [company |-> NotCalled, jobTitle |-> NotCalled]

\* extractCompanyFromQuery(query)
CallCompany ==
  /\ kind = "baseline"
  /\ response.company = NotCalled
  /\ response' = [response EXCEPT !.company = <<extractCompanyFromQuery(body.query)>>]
  /\ RouteUnchanged

\* extractJobTitleFromQuery(query)
CallJobTitle ==
  /\ kind = "baseline"
  /\ response.jobTitle = NotCalled
  /\ response' = [response EXCEPT !.jobTitle = <<extractJobTitleFromQuery(body.query)>>]
  /\ RouteUnchanged

NextQuery == CallCompany \/ CallJobTitle

SpecQuery == InitQuery /\ [][NextQuery]_vars

(***************************************************************************)
(* Properties                                                              *)
(***************************************************************************)

\* The text of a URL as a result or a profile carries it
UrlText(url) == IF url.t = "string" THEN url.v ELSE ""

\* A URL that is not the URL of a profile page
NotAProfileUrl(url) ==
  \/ ~includes(UrlText(url), "/in/")
  \/ includes(UrlText(url), "/jobs/")
  \/ includes(UrlText(url), "/company/")

\* The search answered with a list of profiles
SearchSucceeded == kind = "search" /\ response.status = 200

\* C1: a search result whose URL lacks /in/, or contains /jobs/ or /company/,
\* is never passed to extractProfileData, and no profile of the search
\* response has such a URL as its linkedinUrl.
C1_UrlFilterPrecedesExtraction ==
  /\ \A k \in 1..Len(results) :
       NotAProfileUrl(results[k].url) =>
         \A c \in 1..Len(extractCalls) : extractCalls[c] # results[k]
  /\ \A c \in 1..Len(extractCalls) : ~NotAProfileUrl(extractCalls[c].url)
  /\ SearchSucceeded =>
       \A p \in 1..Len(response.profiles) :
         ~NotAProfileUrl(response.profiles[p].linkedinUrl)

\* A search that returned a company page and a jobs page among profile pages
\* has answered with profiles
C1_Witness ==
  /\ SearchSucceeded
  /\ Len(response.profiles) > 0
  /\ Len(extractCalls) > 0
  /\ \E k \in 1..Len(results) : ~includes(UrlText(results[k].url), "/in/")
  /\ \E k \in 1..Len(results) :
       /\ includes(UrlText(results[k].url), "/in/")
       /\ includes(UrlText(results[k].url), "/jobs/")

\* The contacts of the CRM whose LinkedIn URL is exactly the profile's
ContactsOf(profile) == {c \in crm : JStr(c.url) = profile.linkedinUrl}

\* The duplicate check has issued lookups
ChecksIssued == kind = "search" /\ crmCalls # <<>>

\* C2: lookups that throw never fail checkHubSpotStatus: once lookups are
\* issued the request does not end in an error; the check returns one entry
\* per input profile, with inHubSpot false for each lookup that threw and the
\* annotation the CRM's contacts give for every other one.
C2_LookupFailuresDegradePerProfile ==
  ChecksIssued =>
    /\ response.status \in {0, 200}
    /\ failedLookups \subseteq 1..Len(finalProfiles)
    /\ \A k \in 1..Len(profilesWithStatus) :
         profilesWithStatus[k].inHubSpot =
           (k \notin failedLookups /\ ContactsOf(finalProfiles[k]) # {})
    /\ pc = "done" =>
         /\ response.status = 200
         /\ Len(profilesWithStatus) = Len(finalProfiles)
         /\ Len(response.profiles) = Len(finalProfiles)
         /\ \A k \in 1..Len(finalProfiles) :
              response.profiles[k].inHubSpot =
                (k \notin failedLookups /\ ContactsOf(finalProfiles[k]) # {})

\* A batch in which the lookup of a known contact threw and the lookup of
\* another known contact answered has been returned
C2_Witness ==
  /\ ChecksIssued
  /\ rev = "batched"
  /\ pc = "done"
  /\ \E f \in failedLookups, k \in 1..Min(BATCH_SIZE, Len(finalProfiles)) :
       /\ f <= BATCH_SIZE
       /\ k \notin failedLookups
       /\ ContactsOf(finalProfiles[f]) # {}
       /\ response.profiles[f].inHubSpot = FALSE
       /\ response.profiles[k].inHubSpot = TRUE

\* The fields of profile a are fields of b with the same values
SameFields(a, b) ==
  /\ DOMAIN a \subseteq DOMAIN b
  /\ \A f \in DOMAIN a : b[f] = a[f]

\* C3: the duplicate check keeps the order of its input, for every order in
\* which the lookups of a batch settle and for the sequential check: entry k
\* of its output is profile k of its input with the annotation added, and the
\* output is as long as the input.
C3_OrderPreserved ==
  kind = "search" =>
    /\ Len(profilesWithStatus) <= Len(finalProfiles)
    /\ \A k \in 1..Len(profilesWithStatus) :
         SameFields(finalProfiles[k], profilesWithStatus[k])
    /\ \A k \in 1..Len(lookups) :
         lookups[k].state = "settled" =>
           SameFields(finalProfiles[i + k], lookups[k].value)
    /\ (pc = "done" /\ response.status = 200) =>
         /\ Len(response.profiles) = Len(finalProfiles)
         /\ \A k \in 1..Len(finalProfiles) :
              SameFields(ToJson(finalProfiles[k]), response.profiles[k])

\* In the first batch of a list of more than five profiles, the last lookup
\* has settled while the first is pending
C3_Witness ==
  /\ kind = "search"
  /\ pc = "batch"
  /\ Len(finalProfiles) > BATCH_SIZE
  /\ Len(lookups) = BATCH_SIZE
  /\ lookups[1].state = "pending"
  /\ lookups[BATCH_SIZE].state = "settled"
  /\ lookups[BATCH_SIZE].value.linkedinUrl = finalProfiles[BATCH_SIZE].linkedinUrl

\* C4: lookup k searches the CRM for the linkedinUrl of profile k; a lookup
\* that answers marks its profile inHubSpot exactly when a contact has that
\* URL, with that contact's id as hubSpotContactId; on a miss no contact id is
\* attached; the annotation changes no other field.
C4_ExactMatchAnnotation ==
  kind = "search" =>
    /\ \A c \in 1..Len(crmCalls) :
         crmCalls[c] = [op |-> "search", url |-> finalProfiles[c].linkedinUrl, id |-> ""]
    /\ \A k \in 1..Len(profilesWithStatus) :
         k \notin failedLookups =>
           /\ profilesWithStatus[k].inHubSpot = (ContactsOf(finalProfiles[k]) # {})
           /\ ContactsOf(finalProfiles[k]) # {} =>
                \E c \in ContactsOf(finalProfiles[k]) :
                  profilesWithStatus[k].hubSpotContactId = JStr(c.id)
           /\ ContactsOf(finalProfiles[k]) = {} =>
                \/ "hubSpotContactId" \notin DOMAIN profilesWithStatus[k]
                \/ profilesWithStatus[k].hubSpotContactId = JUndef
           /\ SameFields(finalProfiles[k], profilesWithStatus[k])
           /\ DOMAIN profilesWithStatus[k] \subseteq
                DOMAIN finalProfiles[k] \cup {"inHubSpot", "hubSpotContactId"}
    /\ (ChecksIssued /\ pc = "done") =>
         \A k \in 1..Len(response.profiles) :
           /\ ContactsOf(finalProfiles[k]) = {} =>
                "hubSpotContactId" \notin DOMAIN response.profiles[k]
           /\ response.profiles[k].inHubSpot =>
                \E c \in ContactsOf(finalProfiles[k]) :
                  response.profiles[k].hubSpotContactId = JStr(c.id)

\* The batched check has answered with a hit that carries the contact's id and
\* a miss that carries none
C4_Witness ==
  /\ ChecksIssued
  /\ rev = "batched"
  /\ pc = "done"
  /\ \E h, m \in 1..Len(response.profiles) :
       /\ h \notin failedLookups
       /\ m \notin failedLookups
       /\ response.profiles[h].inHubSpot = TRUE
       /\ response.profiles[h].hubSpotContactId = JStr("c2")
       /\ response.profiles[h].linkedinUrl = JStr(ProfileUrl(2))
       /\ response.profiles[m].inHubSpot = FALSE
       /\ "hubSpotContactId" \notin DOMAIN response.profiles[m]

\* C5: every profile of a successful search response carries a boolean
\* inHubSpot, whether or not the CRM token is set, the list is empty and the
\* lookups succeed; and without the token no CRM lookup is issued.
C5_EveryProfileAnnotated ==
  /\ SearchSucceeded =>
       \A k \in 1..Len(response.profiles) :
         /\ "inHubSpot" \in DOMAIN response.profiles[k]
         /\ response.profiles[k].inHubSpot \in BOOLEAN
  /\ (kind = "search" /\ ~hubspotToken) => crmCalls = <<>>

\* The query of a search request is missing or empty
QueryAbsent == body.query.t \in {"undefined", "null"} \/ body.query = JStr("")

\* The profiles of an export request are missing, no array, or an empty array
ProfilesAbsent == body.profiles.t # "array" \/ body.profiles.v = <<>>

\* C6: a search without a query and an export without profiles are answered
\* with status 400, and no call to the LLM, the search provider or the CRM is
\* made at any point of the request.
C6_ClientErrorWithoutExternalCall ==
  (\/ kind = "search" /\ QueryAbsent
   \/ kind = "export" /\ ProfilesAbsent) =>
    /\ llmCalls = 0
    /\ exaCalls = <<>>
    /\ crmCalls = <<>>
    /\ response.status \in {0, 400}
    /\ pc = "done" => response.status = 400
    /\ pc \in {"received", "done"}

\* A search whose query is the empty string has been answered
C6_Witness ==
  /\ kind = "search"
  /\ openaiKey
  /\ body.query = JStr("")
  /\ pc = "done"
  /\ response.status = 400

\* C7: a search with a non-empty query ends with status 500 only when the
\* search provider's call itself failed.
C7_ServerErrorOnlyOnSearchFailure ==
  (kind = "search" /\ response.status = 500) => exaOutcome = "failed"

\* parseQueryWithGPT has returned to the route
Interpreted == kind = "search" /\ exaCalls # <<>>

\* C8: what parseQueryWithGPT hands the route is a ParsedQuery whose company
\* and jobTitle are strings and whose titleVariations is a list of strings; no
\* LLM call is made without the credential.
C8_TypedParsedQuery ==
  /\ (kind = "search" /\ ~openaiKey) => llmCalls = 0
  /\ Interpreted =>
       /\ searchIntelligence.company.t = "string"
       /\ searchIntelligence.jobTitle.t = "string"
       /\ searchIntelligence.titleVariations.t = "array"
       /\ \A k \in 1..Len(searchIntelligence.titleVariations.v) :
            searchIntelligence.titleVariations.v[k].t = "string"

\* The value the LLM gave for a field of its answer, undefined when it gave none
LlmValue(key) ==
  IF /\ llmReply.kind = "json"
     /\ llmReply.value.t = "object"
     /\ key \in DOMAIN llmReply.value.v
    THEN llmReply.value.v[key]
    ELSE JUndef

\* The LLM was not asked, its call failed, or its answer does not decode to
\* an object
LlmFailed ==
  \/ llmReply.kind \in {"none", "error", "nochoice", "badjson"}
  \/ llmReply.kind = "json" /\ llmReply.value.t # "object"

\* C9: company and title are chosen field by field: the LLM's value when it
\* is non-empty, else what the patterns derive from the query; when the LLM
\* fails both are the patterns' values and titleVariations is empty.
C9_FieldByFieldChoice ==
  Interpreted =>
    /\ companyFromQuery =
         IF Truthy(LlmValue("company")) THEN LlmValue("company")
         ELSE JStr(extractCompanyFromQuery(body.query.v))
    /\ jobTitleFromQuery =
         IF Truthy(LlmValue("jobTitle")) THEN LlmValue("jobTitle")
         ELSE JStr(extractJobTitleFromQuery(body.query.v))
    /\ LlmFailed =>
         /\ companyFromQuery = JStr(extractCompanyFromQuery(body.query.v))
         /\ jobTitleFromQuery = JStr(extractJobTitleFromQuery(body.query.v))
         /\ titleVariations = JArr(<<>>)

\* The LLM gave a title and an empty company: the title is the LLM's, the
\* company the pattern's
C9_Witness ==
  /\ Interpreted
  /\ body.query = JStr("engineer at Acme")
  /\ LlmValue("company") = JStr("")
  /\ LlmValue("jobTitle") = JStr("Founder")
  /\ companyFromQuery = JStr("Acme")
  /\ jobTitleFromQuery = JStr("Founder")

\* C10: title variations only add matches: when hasMatchingJobTitle holds
\* without variations it holds with any variation list.
C10_VariationsOnlyAddMatches ==
  (response.bare = <<TRUE>> /\ response.varied # NotCalled) => response.varied = <<TRUE>>

\* A title that matches by a synonym only has been matched with a list of
\* variations none of which matches it
C10_Witness ==
  /\ body.profile.title = "Head of Data"
  /\ body.searchedTitle = "director"
  /\ body.titleVariations = <<"MTS", "Founder">>
  /\ response.bare = <<TRUE>>
  /\ response.varied = <<TRUE>>

\* A company string that says nothing: empty or the sentinel in any letter case
CompanyAbsent(company) ==
  toLowerCase(company) = "" \/ toLowerCase(company) = "not specified"

\* After lower-casing, one of the two strings contains the other
EitherContains(a, b) ==
  \/ includes(toLowerCase(a), toLowerCase(b))
  \/ includes(toLowerCase(b), toLowerCase(a))

\* What the claim lets isCurrentEmployee return for the companies of this behaviour
C11_Expected ==
  IF CompanyAbsent(body.profile.company)
    THEN FALSE
    ELSE EitherContains(body.profile.company, body.searchCompany)

\* C11 as stated: isCurrentEmployee is false when profile.company is empty or
\* the sentinel in any letter case; otherwise it is true exactly when one of the
\* lower-cased strings contains the other, and exchanging the two strings gives
\* the same result.
C11_CompanyMatchSymmetric ==
  /\ response.direct # NotCalled => response.direct = <<C11_Expected>>
  /\ (/\ response.direct # NotCalled
      /\ response.swapped # NotCalled
      /\ ~CompanyAbsent(body.profile.company)) => response.direct = response.swapped

\* C11, amended: the same, with the exchange giving the same result when neither
\* of the two strings is empty or the sentinel.
C11_CompanyMatch ==
  /\ response.direct # NotCalled => response.direct = <<C11_Expected>>
  /\ (/\ response.direct # NotCalled
      /\ response.swapped # NotCalled
      /\ ~CompanyAbsent(body.profile.company)
      /\ ~CompanyAbsent(body.searchCompany)) => response.direct = response.swapped

\* "OpenAI Research" has been matched against "OpenAI" in both roles
C11_Witness ==
  /\ body.profile.company = "OpenAI Research"
  /\ body.searchCompany = "OpenAI"
  /\ response.direct = <<TRUE>>
  /\ response.swapped = <<TRUE>>

\* C12: hasMatchingJobTitle returns false for every profile whose title is empty
\* or the sentinel, whatever the searched title and the variation list; and
\* when a target title is set, no profile of the search response has an empty
\* or sentinel title.
C12_AbsentTitleNeverMatches ==
  /\ (/\ kind = "hasMatchingJobTitle"
      /\ toLowerCase(body.profile.title) \in {"", "not specified"})
       => /\ response.bare \in {NotCalled, <<FALSE>>}
          /\ response.varied \in {NotCalled, <<FALSE>>}
  /\ (SearchSucceeded /\ Truthy(jobTitleFromQuery))
       => \A k \in 1..Len(response.profiles) :
            toLowerCase(response.profiles[k].title) \notin {"", "not specified"}

\* A search with a target title has extracted a profile without a title from a
\* result of the searched company, and has answered with other profiles only
C12_Witness ==
  /\ SearchSucceeded
  /\ Truthy(jobTitleFromQuery)
  /\ companyFromQuery = JStr("Acme")
  /\ \E k \in 1..Len(extractCalls) : extractCalls[k].title = "Cy Poe - Acme | LinkedIn"
  /\ Len(response.profiles) > 0
  /\ \A k \in 1..Len(response.profiles) : response.profiles[k].name # "Cy Poe"

\* The three spellings the claim names
FounderForms == {"founder", "co-founder", "cofounder"}

\* C13: a search for "founder", "co-founder" or "cofounder" returns true for
\* every profile title that contains one of the three, whichever side carries
\* the co- form.
C13_FounderFormsMatch ==
  (/\ kind = "hasMatchingJobTitle"
   /\ body.searchedTitle \in FounderForms
   /\ \E f \in FounderForms : includes(toLowerCase(body.profile.title), f))
    => /\ response.bare \in {NotCalled, <<TRUE>>}
       /\ response.varied \in {NotCalled, <<TRUE>>}

\* A search with the co- form has matched a title with the plain form, neither
\* of the two normalized strings containing the other
C13_Witness ==
  /\ kind = "hasMatchingJobTitle"
  /\ body.searchedTitle = "co-founder"
  /\ body.profile.title = "Founder & CEO"
  /\ response.bare = <<TRUE>>
  /\ response.varied = <<TRUE>>

\* A variation of the list of this behaviour, normalized, contains the
\* normalized profile title or is contained in it
SomeVariationFits ==
  \E k \in 1..Len(body.titleVariations) :
    \/ includes(normalizeTitle(toLowerCase(body.profile.title)),
                normalizeTitle(toLowerCase(body.titleVariations[k])))
    \/ includes(normalizeTitle(toLowerCase(body.titleVariations[k])),
                normalizeTitle(toLowerCase(body.profile.title)))

\* C14: for a profile with a non-empty, non-sentinel title and any searched
\* title, hasMatchingJobTitle returns true when at least one supplied variation,
\* normalized, contains or is contained in the normalized profile title.
C14_MatchingVariationSuffices ==
  (/\ kind = "hasMatchingJobTitle"
   /\ toLowerCase(body.profile.title) \notin {"", "not specified"}
   /\ SomeVariationFits)
    => response.varied \in {NotCalled, <<TRUE>>}

\* The searched title of this behaviour is a, and the profile title contains b
SearchedAgainst(a, b) ==
  /\ kind = "hasMatchingJobTitle"
  /\ body.searchedTitle = a
  /\ includes(toLowerCase(body.profile.title), b)

\* C15: "director" and "head" are equivalent for title matching: a search for
\* "director" matches a profile title containing "head", and a search for
\* "head" matches a profile title containing "director".
C15_DirectorHeadEquivalent ==
  (SearchedAgainst("director", "head") \/ SearchedAgainst("head", "director"))
    => /\ response.bare \in {NotCalled, <<TRUE>>}
       /\ response.varied \in {NotCalled, <<TRUE>>}

\* The tokens of a normalized title that are no stoplist words
KeptTokens(normalized) ==
  {SplitWs(normalized)[k] : k \in 1..Len(SplitWs(normalized))} \ CommonWords

\* What the claim lets the fallback return: a kept search token contains a
\* kept profile token or is contained in it
C16_Expected ==
  \E a \in KeptTokens(normalizeTitle(toLowerCase(body.searchedTitle))) :
    \E b \in KeptTokens(normalizeTitle(toLowerCase(body.profile.title))) :
      includes(a, b) \/ includes(b, a)

\* No rule before the fallback decides the call of this behaviour with the
\* variation list given
FallbackReached(variations) ==
  /\ kind = "hasMatchingJobTitle"
  /\ toLowerCase(body.profile.title) \notin {"", "not specified"}
  /\ ~DirectMatch(normalizeTitle(toLowerCase(body.profile.title)),
                  normalizeTitle(toLowerCase(body.searchedTitle)))
  /\ ~FounderRuleDecides(normalizeTitle(toLowerCase(body.profile.title)),
                         normalizeTitle(toLowerCase(body.searchedTitle)))
  /\ ~VariationMatch(normalizeTitle(toLowerCase(body.profile.title)), variations)
  /\ ~SynonymMatch(normalizeTitle(toLowerCase(body.profile.title)),
                   normalizeTitle(toLowerCase(body.searchedTitle)))

\* C16: when no earlier rule decides, hasMatchingJobTitle returns true exactly
\* when, the stoplist words dropped from the tokens of both normalized titles,
\* a remaining search token contains or is contained in a remaining profile
\* token.
C16_FallbackDropsStoplistOnBothSides ==
  /\ (FallbackReached(<<>>) /\ response.bare # NotCalled)
       => response.bare = <<C16_Expected>>
  /\ (FallbackReached(body.titleVariations) /\ response.varied # NotCalled)
       => response.varied = <<C16_Expected>>

\* The first run on a result without body text and highlights, with no target
\* company, has returned
ReturnedFromPageTitle ==
  /\ kind = "extractProfileData"
  /\ body.result.text = ""
  /\ body.result.highlights = <<>>
  /\ body.searchCompany = ""
  /\ response.first # NotCalled

\* C17: for a page title "N - T @ C | LinkedIn" or "N - T at C | LinkedIn", with
\* empty body and highlights and no target company, extractProfileData yields
\* name N, title T and company C.
C17_PageTitleFields ==
  \A n \in FormNames, t \in FormTitles, sep \in FormSeparators, c \in FormCompanies :
    (ReturnedFromPageTitle /\ body.result.title = FormedTitle(n, t, sep, c))
      => /\ response.first[1].name = n
         /\ response.first[1].title = t
         /\ response.first[1].company = c

\* The page title of this behaviour without its suffix, and the part after its
\* first " - "
PageTitleStripped == StripLinkedInSuffix(body.result.title)

PageTitleAfterDash ==
  trim(SubSeq(PageTitleStripped, indexOf(PageTitleStripped, " - ") + 3,
              Len(PageTitleStripped)))

\* The page title has a " - " and no " @ ", " at " or " | " after it
NoSeparatorAfterDash ==
  /\ kind = "extractProfileData"
  /\ includes(PageTitleStripped, " - ")
  /\ \A sep \in {" @ ", " at ", " | "} : ~includes(toLowerCase(PageTitleAfterDash), sep)

\* At most three words and none of the job words
ShortAndNoJobWord(phrase) ==
  /\ Len(SplitWs(phrase)) <= 3
  /\ \A w \in 1..Len(jobWords) : ~includes(toLowerCase(phrase), jobWords[w])

\* C18: when the part after the first " - " has no separator, it becomes the
\* company, the title staying "Not specified", if it has at most 3 words and
\* none of the job words; otherwise it becomes the title, the company staying
\* "Not specified". "Jane Doe - Acme | LinkedIn" gives company "Acme" and title
\* "Not specified".
C18_CompanyOrTitleHeuristic ==
  /\ (NoSeparatorAfterDash /\ pc = "split")
       => IF ShortAndNoJobWord(PageTitleAfterDash)
            THEN /\ response.fields.company = PageTitleAfterDash
                 /\ response.fields.jobTitle = "Not specified"
            ELSE /\ response.fields.jobTitle = PageTitleAfterDash
                 /\ response.fields.company = "Not specified"
  /\ (ReturnedFromPageTitle /\ body.result.title = "Jane Doe - Acme | LinkedIn")
       => /\ response.first[1].company = "Acme"
          /\ response.first[1].title = "Not specified"

\* A phrase of three words without a job word has become the company
C18_Witness ==
  /\ kind = "extractProfileData"
  /\ pc = "split"
  /\ body.result.title = "Jane Doe - Bank of America | LinkedIn"
  /\ response.fields.company = "Bank of America"
  /\ response.fields.jobTitle = "Not specified"

\* The job title names nothing: the sentinel or the empty string
NoTitle(jobTitle) == jobTitle = "Not specified" \/ jobTitle = ""

\* C19: across the steps of one extraction, once the title holds a value other
\* than the sentinel, no later step sets it to "Not specified" or to the empty
\* string.
C19_TitleNeverCleared ==
  [][(kind = "extractProfileData" /\ ~NoTitle(response.fields.jobTitle))
       => ~NoTitle(response.fields.jobTitle')]_vars

ProfileFields == {"id", "name", "title", "company", "linkedinUrl", "summary"}

\* C21: every profile of a search response has the six fields id, name, title,
\* company, linkedinUrl and summary.
C21_SixFieldsDefined ==
  SearchSucceeded
    => \A k \in 1..Len(response.profiles) : ProfileFields \subseteq DOMAIN response.profiles[k]

\* The export request carries a list of at least one profile and is answered
ExportAnswered == kind = "export" /\ pc = "done" /\ ~ProfilesAbsent

\* C22: the export of N >= 1 profiles answers with a CSV of one header row,
\* Name, Title, Company, Bio, LinkedIn URL in this order, and N data rows in
\* the order of the submitted list, whatever the outcome of the CRM sync.
C22_CsvRowPerProfile ==
  ExportAnswered
    => /\ response.status = 200
       /\ response.csv.fields = <<"Name", "Title", "Company", "Bio", "LinkedIn URL">>
       /\ Len(response.csv.rows) = Len(body.profiles.v)
       /\ \A k \in 1..Len(body.profiles.v) :
            /\ Len(response.csv.rows[k]) = 5
            /\ response.csv.rows[k][1] = body.profiles.v[k].name
            /\ response.csv.rows[k][2] = body.profiles.v[k].title
            /\ response.csv.rows[k][3] = body.profiles.v[k].company
            /\ response.csv.rows[k][5] = UrlText(body.profiles.v[k].linkedinUrl)

\* An export of two profiles has been answered after the sync of the first
\* failed and the sync of the second created a contact
C22_Witness ==
  /\ ExportAnswered
  /\ Len(body.profiles.v) = 2
  /\ syncResults = [created |-> 1, updated |-> 0, failed |-> 1]
  /\ Len(response.csv.rows) = 2

\* The export request carries a list of at least one profile
Exporting == kind = "export" /\ ~ProfilesAbsent

\* The lookups the export has issued, in the order it issued them
RECURSIVE LookupsIn(_)
LookupsIn(calls) ==
  IF calls = <<>> THEN <<>>
  ELSE IF Head(calls).op = "search" THEN <<Head(calls).url>> \o LookupsIn(Tail(calls))
  ELSE LookupsIn(Tail(calls))

\* The number of profiles with an outcome
Outcomes == syncResults.created + syncResults.updated + syncResults.failed

\* The CRM holds a contact with the LinkedIn URL of the profile
KnownToCrm(contacts, profile) == \E c \in contacts : JStr(c.url) = profile.linkedinUrl

\* Profiles 1..i have one outcome each and one lookup each, in list order; the
\* profile after them has its lookup when it is being processed; the answer
\* comes when all have an outcome
C23_OneOutcomeEach ==
  Exporting
    => /\ Outcomes = i
       /\ i <= Len(body.profiles.v)
       /\ LookupsIn(crmCalls) =
            [k \in 1..(IF pc \in {"sync_search", "sync_write"} THEN i + 1 ELSE i) |->
               body.profiles.v[k].linkedinUrl]
       /\ pc = "done" => (i = Len(body.profiles.v) /\ response.status = 200)

\* A step that gives an outcome gives one outcome to the next profile of the
\* list: updated only with a contact of its URL in the CRM, created only
\* without one
C23_OutcomeStep ==
  (Exporting /\ syncResults' # syncResults)
    => /\ i' = i + 1
       /\ \E outcome \in {"created", "updated", "failed"} :
            /\ syncResults' = [syncResults EXCEPT ![outcome] = @ + 1]
            /\ outcome = "updated"
                 => pc = "sync_write" /\ KnownToCrm(crm, body.profiles.v[i + 1])
            /\ outcome = "created"
                 => /\ pc = "sync_write"
                    /\ ~KnownToCrm(crm, body.profiles.v[i + 1])
                    /\ KnownToCrm(crm', body.profiles.v[i + 1])
       /\ pc' = "done" <=> i' = Len(body.profiles.v)

\* C23: during export every submitted profile is processed exactly once, in
\* list order, with exactly one outcome: updated when the lookup finds a
\* contact, created when it finds none, failed otherwise; created + updated +
\* failed is the number of profiles, and a failure stops neither the remaining
\* profiles nor the CSV response.
C23_OneOutcomePerProfile == []C23_OneOutcomeEach /\ [][C23_OutcomeStep]_vars

\* The first profile of two has failed and the second, known to the CRM, has
\* been updated before the answer
C23_Witness ==
  /\ Exporting
  /\ pc = "done"
  /\ Len(body.profiles.v) = 2
  /\ syncResults = [created |-> 0, updated |-> 1, failed |-> 1]
  /\ response.status = 200

\* C24: for a query "<title> at <Company>" or "<title> @ <Company>" the
\* baseline interpretation gives the lower-cased title before the keyword as
\* jobTitle and the whole capitalized phrase after that keyword as company;
\* letters "at" inside another word are never taken as the keyword.
C24_SplitAtOneKeyword ==
  \A t \in QueryTitles, kw \in QueryKeywords, c \in QueryCompanies :
    (kind = "baseline" /\ body.query = FormedQuery(t, kw, c))
      => /\ response.jobTitle \in {NotCalled, <<toLowerCase(t)>>}
         /\ response.company \in {NotCalled, <<c>>}

\* checkHubSpotStatus of route.ts is at work with the credential
BatchedCheck == kind = "search" /\ rev = "batched" /\ hubspotToken /\ pc \in {"batch", "delay"}

\* The lookups in flight
InFlight == {k \in 1..Len(lookups) : lookups[k].state = "pending"}

\* ceil(n / BATCH_SIZE)
Groups(n) == (n + BATCH_SIZE - 1) \div BATCH_SIZE

\* At most BATCH_SIZE lookups are in flight; the lookups issued are those of the
\* groups before the current one, all settled and pushed, and of the current
\* one; the pause is entered only with profiles left; the answer comes after
\* one lookup per profile, in ceil(N / BATCH_SIZE) groups
C25_GroupsOfFive ==
  /\ BatchedCheck
       => /\ Cardinality(InFlight) <= 5
          /\ Len(profilesWithStatus) = (IF pc = "batch" THEN i ELSE i + 5)
          /\ Len(crmCalls) = (IF pc = "batch" THEN i + Len(lookups) ELSE i + 5)
          /\ pc = "delay" => (lookups = <<>> /\ i + 5 < Len(finalProfiles))
  /\ (SearchSucceeded /\ rev = "batched" /\ hubspotToken)
       => /\ Len(crmCalls) = Len(finalProfiles)
          /\ \A k \in 1..Len(finalProfiles) :
               crmCalls[k] = [op |-> "search", url |-> finalProfiles[k].linkedinUrl, id |-> ""]
          /\ Len(finalProfiles) > 0 => i \div 5 + 1 = Groups(Len(finalProfiles))

\* Lookups are issued only when none is in flight, and a pause is followed by
\* the next group
C25_GroupStep ==
  (BatchedCheck /\ crmCalls' # crmCalls) => (InFlight = {} /\ pc = "delay" /\ pc' = "batch")

\* C25: the CRM dedup step issues exactly one lookup per profile, in groups of
\* at most 5: never more than 5 lookups are in flight, no lookup of a group
\* starts before every lookup of the group before has settled, the pause
\* happens only between groups, and the step completes after ceil(N/5) groups
\* provided every lookup settles.
C25_BatchedLookups ==
  /\ []C25_GroupsOfFive
  /\ [][C25_GroupStep]_vars
  /\ (BatchedCheck ~> (pc = "done" /\ response.status = 200))

\* The second group of a list of six profiles is in flight after the pause
C25_Witness ==
  /\ BatchedCheck
  /\ pc = "batch"
  /\ Len(finalProfiles) = 6
  /\ i = 5
  /\ InFlight = {1}
  /\ Len(profilesWithStatus) = 5

\* The step of extractProfileData over the body passes
BodyStepTaken == kind = "extractProfileData" /\ pc = "tidied" /\ pc' = "body"

\* C26: the body-text title passes ("Experience:" then "Current:") run exactly
\* when the combined length of body text plus highlight text exceeds 50
\* characters, also when each of the two is at most 50 characters long.
C26_BodyPassesOnCombinedLength ==
  [][BodyStepTaken
       => response'.fields.jobTitle =
            (IF Len(body.result.text) + Len(Join(body.result.highlights)) > 50
               THEN ExperiencePass(body.result.text \o " " \o Join(body.result.highlights),
                                   response.fields.jobTitle)
               ELSE response.fields.jobTitle)]_vars

\* The step of extractProfileData over the target-company pass
CompanyStepTaken == kind = "extractProfileData" /\ pc = "body" /\ pc' = "company"

\* `${text} ${highlights}` of the result
FullText == body.result.text \o " " \o Join(body.result.highlights)

\* The phrase before the target company in the body text, when it passes the
\* validation
ValidatedPhrase ==
  Only({IF m.matched /\ IsValidTitle(m.title) THEN <<m.title>> ELSE <<>> :
          m \in {Candidate(CompanyGroup(FullText, body.searchCompany))}})

\* C27: the target-company pass changes title and company only on a validated
\* match, when title becomes the matched phrase and company the target company;
\* with an empty target company, with empty body and highlights, or with no
\* validated match, both are left as the previous steps set them.
C27_CompanyPassOnlyOnValidMatch ==
  [][CompanyStepTaken
       => IF /\ body.searchCompany # ""
             /\ (body.result.text # "" \/ body.result.highlights # <<>>)
             /\ ValidatedPhrase # <<>>
            THEN /\ response'.fields.jobTitle = ValidatedPhrase[1]
                 /\ response'.fields.company = body.searchCompany
            ELSE /\ response'.fields.jobTitle = response.fields.jobTitle
                 /\ response'.fields.company = response.fields.company]_vars

\* The results with a profile URL, in the order of the search provider
UrlValidOf(list) ==
  SelectSeq(list,
            LAMBDA r : /\ r.url.t = "string"
                       /\ includes(r.url.v, "linkedin.com/in/")
                       /\ ~includes(r.url.v, "/jobs/")
                       /\ ~includes(r.url.v, "/company/"))

UrlValid == UrlValidOf(results)

\* The profile extracted from each result of a list
ExtractedFrom(list) ==
  [k \in 1..Len(list) |->
     extractProfileData(list[k],
                        IF Truthy(companyFromQuery) THEN companyFromQuery.v ELSE "",
                        rev = "sequential", "")]

Extracted == ExtractedFrom(UrlValid)

\* (target company is empty or isCurrentEmployee holds) and (target title is
\* empty or hasMatchingJobTitle holds)
MatchesTargets(profile) ==
  /\ Truthy(companyFromQuery) => isCurrentEmployee(profile, companyFromQuery.v)
  /\ Truthy(jobTitleFromQuery)
       => hasMatchingJobTitleJs(profile, jobTitleFromQuery, titleVariations) = "true"

\* Where the result of a profile of the response is in the results
PositionOf(profile) == {j \in 1..Len(results) : results[j].url = profile.linkedinUrl}

\* The search provider answers and the route goes on to the duplicate check
ProviderAnswered == kind = "search" /\ pc = "exa" /\ exaOutcome' = "returned" /\ pc' # "exa"

\* The profiles the route keeps are the extracted profiles that match the targets
C28_KeptStep ==
  (ProviderAnswered /\ response'.status # 500)
    => finalProfiles' =
         SelectSeq(ExtractedFrom(UrlValidOf(results')), MatchesTargets)

\* The response lists the kept profiles, all of them with both targets empty,
\* in the order of the results and one per result
C28_ResponseLists ==
  SearchSucceeded
    => /\ Len(response.profiles) = Len(finalProfiles)
       /\ \A k \in 1..Len(finalProfiles) :
            /\ response.profiles[k].linkedinUrl = finalProfiles[k].linkedinUrl
            /\ response.profiles[k].name = finalProfiles[k].name
            /\ response.profiles[k].title = finalProfiles[k].title
            /\ response.profiles[k].company = finalProfiles[k].company
       /\ (~Truthy(companyFromQuery) /\ ~Truthy(jobTitleFromQuery))
            => Len(response.profiles) = Len(UrlValid)
       /\ \A k \in 1..Len(response.profiles) :
            /\ Cardinality(PositionOf(response.profiles[k])) = 1
            /\ \A l \in (k + 1)..Len(response.profiles) :
                 \A a \in PositionOf(response.profiles[k]), b \in PositionOf(response.profiles[l]) :
                   a < b

\* C28: a profile extracted from a URL-valid result is in the search response
\* exactly when (target company is empty or isCurrentEmployee holds) and (target
\* title is empty or hasMatchingJobTitle holds); with both targets empty every
\* extracted profile is returned; the response is an order-preserving
\* subsequence of the results with at most one profile per result.
C28_ResponseIsFilteredResults == []C28_ResponseLists /\ [][C28_KeptStep]_vars

\* A search with both targets answers with some of the extracted profiles and
\* without others
C28_Witness ==
  /\ SearchSucceeded
  /\ Truthy(companyFromQuery)
  /\ Truthy(jobTitleFromQuery)
  /\ Len(results) = MaxResults
  /\ Len(response.profiles) > 1
  /\ \E k \in 1..Len(Extracted) :
       isCurrentEmployee(Extracted[k], companyFromQuery.v) /\ ~MatchesTargets(Extracted[k])
  /\ \E k \in 1..Len(Extracted) : ~isCurrentEmployee(Extracted[k], companyFromQuery.v)

\* C29: after any sequence and any interleaving of export requests, two
\* concurrent exports of the same profile included, the CRM holds at most one
\* contact per LinkedIn URL.
C29_OneContactPerUrl ==
  kind = "exports" => \A k \in 1..MaxExport : Cardinality(ContactsOf(ExportProfile(k))) <= 1

\* The profiles marked inHubSpot among a list
Contacted(profiles) == {profiles[k].id : k \in {j \in 1..Len(profiles) : profiles[j].inHubSpot}}

\* C30: in the UI, while "Hide contacted" is on, no profile marked inHubSpot is
\* selected by select-all or sent in an export request.
C30_HiddenContactedLeftOut ==
  [][/\ (HandleSelectAll /\ response.hideContacted)
          => response'.selectedProfiles \cap Contacted(response.profiles) = {}
     /\ (HandleExport /\ response.hideContacted)
          => IdsOf(response'.sent) \cap Contacted(response.profiles) = {}]_vars

====
